---- MODULE Spec2Model ----
(***************************************************************************)
(* A model of nixip: the CRC-32 engine (src/crc.mjs), the record codec     *)
(* (src/serialise.mjs and the later createBufferForStruct version), the    *)
(* read-side locator (src/nixip_read.mjs), the streaming archive writer   *)
(* with its record builders (src/nip.mjs) and the display-name functions   *)
(* (getFileNameFromPath, and getFileName of the earlier writer).           *)
(*                                                                         *)
(* TLC integers are 32-bit signed, so a JavaScript 32-bit word is kept as  *)
(* two 16-bit halves plus a flag telling whether the engine holds it as an *)
(* Int32 (the result of ^ and &) or as a Uint32 (the result of >>>), and a *)
(* 64-bit quantity is kept as four 16-bit limbs, most significant first.   *)
(***************************************************************************)
EXTENDS Integers, Sequences, FiniteSets, TLC

VARIABLES
    \* ---- CRC-32 engine (crcFile)
    crcIn,        \* the bytes of the file being summed
    crcSplit,     \* lengths of the chunks delivered so far by the read stream
    crcVal,       \* the running crc (a Word)
    crcPc,        \* "idle" | "data" | "done"
    crcResult,    \* the value crcFile resolves with
    \* ---- record codec (Struct, prepareStructs, createBufferForStruct)
    cDef,         \* the record definition in use
    cData,        \* the caller's data: a function on the supplied field names
    cPc,          \* "idle" | "start" | "encoded" | "decoded" | "written" | "read"
    cEnc,         \* outcome of the encoder
    cDec,         \* outcome of Struct.FromBuffer
    cSizes,       \* outcome of the two size computations
    cRz,          \* outcome of readZip on the end record
    cField,       \* outcome of sizeFrom and sizeUntil
    cShort,       \* outcome of a decode from a buffer or file cut short
    \* ---- read-side locator (findZip64Locator)
    file,             \* the archive being read
    lPc,              \* "idle" | "scan" | "found" | "done"
    negativeOffset,
    position,         \* position of the last window read
    lastBytesRead,
    signatureOffset,
    locator,          \* what findZip64Locator returns
    reads,            \* window reads done so far
    windows,          \* the window reads done: position and bytesRead of each
    \* ---- archive writer (createZipFromFileList)
    inputs,       \* filePathList: the files to add, each a path and its chunks
    wPc,          \* "idle" | "loop" | "streaming" | "done" | "rejected" | "uncaught"
    nextFile,     \* index of the next path of filePathList
    state,        \* zipState: writeStream, currentPosInWriteStream, fileInfoList
    sink,         \* the writes handed to state.writeStream, in order
    pipe,         \* the stream pipeline of the entry being added
    \* ---- addFileToZip called without awaiting the previous call
    calls,        \* the pipelines of the calls made so far on the one state
    \* ---- the writer's record builders (createFileHeader, end records)
    hInfo,        \* the fileInfo handed to createFileHeader
    hEnd,         \* centralDirectoryStart, centralDirectorySize, numEntries
    hList,        \* the fileInfoList handed to endZip's loop over the entries
    hPc,          \* "idle" | "start" | "header" | "end"
    hOut,         \* what the builders returned
    \* ---- display names (getFileName, getFileNameFromPath)
    path,         \* the file path
    nPc,          \* "idle" | "start" | "done"
    nOut          \* the name returned

crcVars == <<crcIn, crcSplit, crcVal, crcPc, crcResult>>
codecVars == <<cDef, cData, cPc, cEnc, cDec, cSizes, cRz, cField, cShort>>
locVars ==
    <<file, lPc, negativeOffset, position, lastBytesRead, signatureOffset, locator, reads,
      windows>>

wrVars == <<inputs, wPc, nextFile, state, sink, pipe>>

recVars == <<hInfo, hEnd, hList, hPc, hOut>>
nameVars == <<path, nPc, nOut>>
callVars == <<calls>>

vars == <<crcVars, codecVars, locVars, wrVars, recVars, nameVars, callVars>>

notCrc == <<codecVars, locVars, wrVars, recVars, nameVars, callVars>>
notCodec == <<crcVars, locVars, wrVars, recVars, nameVars, callVars>>
notLoc == <<crcVars, codecVars, wrVars, recVars, nameVars, callVars>>
notWriter == <<crcVars, codecVars, locVars, recVars, nameVars, callVars>>
notRec == <<crcVars, codecVars, locVars, wrVars, nameVars, callVars>>
notName == <<crcVars, codecVars, locVars, wrVars, recVars, callVars>>
notCalls == <<crcVars, codecVars, locVars, recVars, nameVars>>

(***************************************************************************)
(* 32-bit words as JavaScript holds them                                   *)
(***************************************************************************)
RECURSIVE BitXor(_, _)
BitXor(a, b) ==
    IF a = 0 THEN b
    ELSE IF b = 0 THEN a
    ELSE ((a + b) % 2) + 2 * BitXor(a \div 2, b \div 2)

RECURSIVE Pow2(_)
Pow2(n) == IF n = 0 THEN 1 ELSE 2 * Pow2(n - 1)

Half == Pow2(16)
ByteMod == Pow2(8)

\* A number literal or the result of >>> : an unsigned 32-bit value.
MkU(hi, lo) == [hi |-> hi, lo |-> lo, sgn |-> FALSE]

\* a ^ b : ToInt32 of both operands, the result is an Int32.
Xor32(a, b) == [hi |-> BitXor(a.hi, b.hi), lo |-> BitXor(a.lo, b.lo), sgn |-> TRUE]

\* a >>> n for 0 <= n < 16 : the result is a Uint32.
UShr(a, n) ==
    [hi  |-> a.hi \div Pow2(n),
     lo  |-> (a.lo \div Pow2(n)) + (a.hi % Pow2(n)) * Pow2(16 - n),
     sgn |-> FALSE]

\* The number a word denotes is negative exactly when it is held as an Int32
\* with the top bit set.
IsNegative(w) == w.sgn /\ w.hi >= Half \div 2

(***************************************************************************)
(* src/crc.mjs                                                             *)
(***************************************************************************)
Polynomial == MkU(60856, 33568)      \* 0xedb88320
CrcSeed == MkU(65535, 65535)         \* 0xffffffff
AllOnes == MkU(65535, 65535)         \* 0xffffffff

TableRound(crc) ==
    IF crc.lo % 2 = 1
    THEN UShr(Xor32(Polynomial, UShr(crc, 1)), 0)
    ELSE UShr(crc, 1)

RECURSIVE TableRounds(_, _)
TableRounds(crc, j) == IF j = 0 THEN crc ELSE TableRounds(TableRound(crc), j - 1)

crcTable == [i \in 0..255 |-> TableRounds(MkU(0, i), 8)]

\* crc.mjs:24-25 : one iteration of the loop of updateCRC
UpdateByte(crc, byte) ==
    Xor32(UShr(crc, 8), crcTable[BitXor(crc.lo % ByteMod, byte)])

RECURSIVE UpdateFrom(_, _, _)
UpdateFrom(chunk, i, crc) ==
    IF i > Len(chunk) THEN crc
    ELSE UpdateFrom(chunk, i + 1, UpdateByte(crc, chunk[i]))

updateCRCResetting(chunk, crc) == UpdateFrom(chunk, 1, CrcSeed)

updateCRC(chunk, crc) == UpdateFrom(chunk, 1, crc)

FinalizeSigned(crc) == Xor32(crc, AllOnes)

\* (crc ^ 0xffffffff) >>> 0
FinalizeCRC(crc) == UShr(Xor32(crc, AllOnes), 0)

(***************************************************************************)
(* crcFile: the read stream delivers the file as consecutive chunks        *)
(***************************************************************************)
MaxBytes == 3       \* length of the generated inputs
MaxChunkLen == 9    \* longest chunk the stream delivers at once
MaxChunks == 4      \* most chunks delivered for one file

Digits == <<49, 50, 51, 52, 53, 54, 55, 56, 57>>     \* "123456789"

SampleBytes == {0, 97, 255}

RECURSIVE SeqsUpTo(_, _)
SeqsUpTo(S, n) ==
    IF n = 0 THEN {<<>>}
    ELSE LET shorter == SeqsUpTo(S, n - 1)
         IN  shorter \cup {Append(s, b) : s \in {t \in shorter : Len(t) = n - 1}, b \in S}

CrcInputs == SeqsUpTo(SampleBytes, MaxBytes) \cup {Digits}

RECURSIVE SumSeq(_)
SumSeq(s) == IF s = <<>> THEN 0 ELSE Head(s) + SumSeq(Tail(s))

CrcPos == SumSeq(crcSplit)

CrcIdle ==
    /\ crcIn = <<>>
    /\ crcSplit = <<>>
    /\ crcVal = <<>>
    /\ crcPc = "idle"
    /\ crcResult = <<>>

CrcInit ==
    /\ crcIn \in CrcInputs
    /\ crcSplit = <<>>
    /\ crcVal = CrcSeed
    /\ crcPc = "data"
    /\ crcResult = CrcSeed

\* readStream.on("data", d => crc = updateCRC(d, crc))
CrcData ==
    /\ crcPc = "data"
    /\ Len(crcSplit) < MaxChunks
    /\ \E n \in 0..MaxChunkLen :
        /\ CrcPos + n <= Len(crcIn)
        /\ crcVal' = updateCRC(SubSeq(crcIn, CrcPos + 1, CrcPos + n), crcVal)
        /\ crcSplit' = Append(crcSplit, n)
    /\ UNCHANGED <<crcIn, crcPc, crcResult>>
    /\ UNCHANGED notCrc

\* readStream.on("end", () => resolve((crc ^ 0xffffffff) >>> 0))
CrcEnd ==
    /\ crcPc = "data"
    /\ CrcPos = Len(crcIn)
    /\ crcResult' = FinalizeCRC(crcVal)
    /\ crcPc' = "done"
    /\ UNCHANGED <<crcIn, crcSplit, crcVal>>
    /\ UNCHANGED notCrc

CrcNext == CrcData \/ CrcEnd


\* C7: folding updateCRC over any split of the input into consecutive chunks
\* (empty chunks included), from the seed 0xFFFFFFFF and inverted at the end,
\* gives the value of one updateCRC call on the whole input, inverted.
C7_ChunkIndependence ==
    crcPc = "done" => crcResult = FinalizeCRC(updateCRC(crcIn, CrcSeed))

C7_Witness ==
    /\ crcPc = "done"
    /\ Len(crcIn) >= 3
    /\ Len(crcSplit) >= 3
    /\ \E i \in 1..Len(crcSplit) : crcSplit[i] = 0
    /\ \E i \in 1..Len(crcSplit) : crcSplit[i] >= 2

\* C8: the engine computes 0xCBF43926 for "123456789", and every finalized
\* result is a number in 0..0xFFFFFFFF.
C8_TestVector ==
    crcPc = "done" =>
        /\ ~IsNegative(crcResult)
        /\ crcResult.hi \in 0..(Half - 1)
        /\ crcResult.lo \in 0..(Half - 1)
        /\ crcIn = Digits => (crcResult.hi = 52212 /\ crcResult.lo = 14630)

C8_Witness ==
    /\ crcPc = "done"
    /\ crcIn = Digits
    /\ crcResult.hi >= Half \div 2

(***************************************************************************)
(* 64-bit quantities and JavaScript values                                 *)
(***************************************************************************)
\* <<l3, l2, l1, l0>> denotes l3*2^48 + l2*2^32 + l1*2^16 + l0.
NumZero == <<0, 0, 0, 0>>
NumOf(i) == <<0, 0, i \div Half, i % Half>>

JsNumber(n) == [k |-> "number", n |-> n]
JsBigInt(n) == [k |-> "bigint", n |-> n]

\* An optional value is <<>> (undefined) or <<v>>.
Undefined == <<>>
Some(v) == <<v>>

\* a ?? b
Coalesce(a, b) == IF a # Undefined THEN a ELSE b

\* data[name]
Prop(data, name) == IF name \in DOMAIN data THEN Some(data[name]) ELSE Undefined

(***************************************************************************)
(* Buffers: sequences of bytes; offset o is index o + 1                    *)
(***************************************************************************)
\* Buffer.alloc(n)
BufferAlloc(n) == [i \in 1..n |-> 0]

\* byte k (0 = least significant) of a 64-bit quantity
ByteOf(n, k) ==
    LET limb == n[4 - (k \div 2)]
    IN  IF k % 2 = 0 THEN limb % ByteMod ELSE limb \div ByteMod

\* whether n < 2^(8w)
FitsWidth(n, w) == \A i \in 1..(4 - w \div 2) : n[i] = 0

\* little-endian store of the low w bytes of n at offset pos
PutBytes(buf, pos, n, w) ==
    [i \in 1..Len(buf) |->
        IF i - 1 >= pos /\ i - 1 < pos + w THEN ByteOf(n, i - 1 - pos) ELSE buf[i]]

\* little-endian load of w bytes at offset pos
GetBytes(buf, pos, w) ==
    LET b(k) == IF k < w THEN buf[pos + k + 1] ELSE 0
    IN  <<b(6) + ByteMod * b(7), b(4) + ByteMod * b(5),
          b(2) + ByteMod * b(3), b(0) + ByteMod * b(1)>>

(***************************************************************************)
(* serialise.mjs: Types, Defaults, TypeSizes                               *)
(***************************************************************************)
u16 == "UInt16LE"
u32 == "UInt32LE"
u64 == "BigUInt64LE"

Defaults(type) == IF type = u64 THEN JsBigInt(NumZero) ELSE JsNumber(NumZero)

TypeSizes(type) == CASE type = u16 -> 2 [] type = u32 -> 4 [] type = u64 -> 8

\* buf["write" + type](value, pos) of node:buffer.  writeUInt16LE/32LE coerce
\* with +value (undefined becomes NaN, stored as 0; a BigInt throws) and
\* range-check; writeBigUInt64LE needs a BigInt.
BufWrite(buf, type, value, pos) ==
    LET w == TypeSizes(type)
        n == IF value = Undefined THEN NumZero ELSE value[1].n
    IN  IF type = u64 /\ (value = Undefined \/ value[1].k # "bigint")
        THEN [err |-> "TypeError", buf |-> buf, pos |-> pos]
        ELSE IF type # u64 /\ value # Undefined /\ value[1].k = "bigint"
        THEN [err |-> "TypeError", buf |-> buf, pos |-> pos]
        ELSE IF ~FitsWidth(n, w) \/ pos + w > Len(buf)
        THEN [err |-> "RangeError", buf |-> buf, pos |-> pos]
        ELSE [err |-> "", buf |-> PutBytes(buf, pos, n, w), pos |-> pos + w]

\* buf["read" + type](pos) of node:buffer
BufRead(buf, type, pos) ==
    LET w == TypeSizes(type)
    IN  IF pos < 0 \/ pos + w > Len(buf)
        THEN [err |-> "RangeError", value |-> Defaults(type)]
        ELSE [err |-> "",
              value |-> IF type = u64 THEN JsBigInt(GetBytes(buf, pos, w))
                        ELSE JsNumber(GetBytes(buf, pos, w))]

(***************************************************************************)
(* Record definitions: sequences of [name, type, literal?]                 *)
(***************************************************************************)
Field(name, type) == [name |-> name, type |-> type, lit |-> Undefined]
FieldLit(name, type, literal) == [name |-> name, type |-> type, lit |-> Some(JsNumber(literal))]

SigLow == 19280       \* 0x4b50, the "PK" half of every signature
Signature(high) == <<0, 0, high, SigLow>>

Signatures ==
    [centralDirectoryHeader            |-> Signature(513),     \* 0x02014b50
     localFileHeader                   |-> Signature(1027),    \* 0x04034b50
     endOfCentralDirectory             |-> Signature(1541),    \* 0x06054b50
     zip64EndOfCentralDirectory        |-> Signature(1542),    \* 0x06064b50
     zip64EndOfCentralDirectoryLocator |-> Signature(1798),    \* 0x07064b50
     dataDescriptor                    |-> Signature(2055)]    \* 0x08074b50

Structs ==
    [zip64EndOfCentralDirectoryRecord |-> <<
        FieldLit("signature", u32, Signatures.zip64EndOfCentralDirectory),
        Field("sizeOfCentralDirectoryRecord", u64),
        FieldLit("versionMadeBy", u16, NumOf(45)),
        FieldLit("versionNeededToExtract", u16, NumOf(45)),
        FieldLit("diskNumber", u32, NumOf(0)),
        FieldLit("diskNumberWithinCentralDirectory", u32, NumOf(0)),
        Field("numEntries", u64),
        Field("numEntries", u64),
        Field("centralDirectorySize", u64),
        Field("centralDirectoryStart", u64) >>,
     endOfCentralDirectoryRecord |-> <<
        FieldLit("signature", u32, Signatures.endOfCentralDirectory),
        FieldLit("diskNumber", u16, NumOf(0)),
        FieldLit("diskNumberWithinCentralDirectory", u16, NumOf(0)),
        Field("numEntries", u16),
        Field("numEntries", u16),
        Field("centralDirectorySize", u32),
        Field("centralDirectoryStart", u32),
        Field("zipFileCommentLength", u16) >>,
     zip64EndOfCentralDirectoryLocator |-> <<
        FieldLit("signature", u32, Signatures.zip64EndOfCentralDirectoryLocator),
        FieldLit("numDisksBeforeStart", u32, NumOf(0)),
        Field("relativeOffset", u64),
        FieldLit("totalNumberOfDisks", u32, NumOf(1)) >>,
     zip64DataDescriptor |-> <<
        FieldLit("signature", u32, Signatures.dataDescriptor),
        Field("crc32", u32),
        Field("compressedSize", u64),
        Field("uncompressedSize", u64) >>]

FieldNames(def) == {def[i].name : i \in 1..Len(def)}
DistinctNames(def) == \A i, j \in 1..Len(def) : def[i].name = def[j].name => i = j

RECURSIVE SumWidthsFrom(_, _)
SumWidthsFrom(def, i) ==
    IF i > Len(def) THEN 0 ELSE TypeSizes(def[i].type) + SumWidthsFrom(def, i + 1)

\* prepareStructs: struct.byteSize
byteSize(def) == SumWidthsFrom(def, 1)

(***************************************************************************)
(* serialise.mjs: class Struct                                             *)
(***************************************************************************)
\* A Struct: entryOrder (array), entries (an object: keys holds its own keys
\* in insertion order, map their values), and threw, the exception that
\* ended the constructor ("" when none).  Field names are identifiers, so
\* the key order of the object is the insertion order.
EmptyStruct == [entryOrder |-> <<>>, keys |-> <<>>, map |-> <<>>, threw |-> ""]

InSeq(x, s) == \E i \in 1..Len(s) : s[i] = x

addEntry(s, name, type, value) ==
    LET v == IF value = Undefined THEN Defaults(type) ELSE value[1]
    IN  [entryOrder |-> Append(s.entryOrder, name),
         keys       |-> IF InSeq(name, s.keys) THEN s.keys ELSE Append(s.keys, name),
         map        |-> (name :> [type |-> type, value |-> v]) @@ s.map,
         \* Object.defineProperty on an own, non-configurable accessor
         threw      |-> IF InSeq(name, s.keys) THEN "TypeError" ELSE ""]

RECURSIVE ConstructFrom(_, _, _, _)
ConstructFrom(s, def, data, i) ==
    IF i > Len(def) \/ s.threw # "" THEN s
    ELSE ConstructFrom(
            addEntry(s, def[i].name, def[i].type, Coalesce(Prop(data, def[i].name), def[i].lit)),
            def, data, i + 1)

\* new Struct(definition, data)
NewStruct(def, data) == ConstructFrom(EmptyStruct, def, data, 1)

RECURSIVE StructSizeFrom(_, _)
StructSizeFrom(s, i) ==
    IF i > Len(s.keys) THEN 0
    ELSE TypeSizes(s.map[s.keys[i]].type) + StructSizeFrom(s, i + 1)

\* get size()
StructSize(s) == StructSizeFrom(s, 1)

RECURSIVE WriteFrom(_, _, _, _)
WriteFrom(s, w, i, offset) ==
    IF i > Len(s.entryOrder) \/ w.err # "" THEN w
    ELSE LET e == s.map[s.entryOrder[i]]
             value == IF e.type = u64 THEN JsBigInt(e.value.n) ELSE e.value
         IN  WriteFrom(s, BufWrite(w.buf, e.type, Some(value), w.pos), i + 1, offset)

\* writeToBuffer(buf, offset): the buffer and buf.bytesSerialised
writeToBuffer(s, buf, offset) ==
    LET w == WriteFrom(s, [err |-> "", buf |-> buf, pos |-> offset], 1, offset)
    IN  [err |-> w.err, buf |-> w.buf, written |-> w.pos - offset]

\* createBuffer(extraSpace)
createBuffer(s, extraSpace) ==
    writeToBuffer(s, BufferAlloc(StructSize(s) + extraSpace), 0)

RECURSIVE ReadFrom(_, _, _, _, _)
ReadFrom(s, buffer, i, bytePos, err) ==
    IF i > Len(s.keys) \/ err # "" THEN [err |-> err, struct |-> s, bytePos |-> bytePos]
    ELSE LET name == s.keys[i]
             type == s.map[name].type
             r == BufRead(buffer, type, bytePos)
         IN  IF r.err # "" THEN ReadFrom(s, buffer, i, bytePos, r.err)
             ELSE ReadFrom([s EXCEPT !.map[name].value = r.value],
                           buffer, i + 1, bytePos + TypeSizes(type), "")

\* readFromBuffer(buffer, offset): the struct as left, and the bytes consumed
readFromBuffer(s, buffer, offset) ==
    LET r == ReadFrom(s, buffer, 1, offset, "")
    IN  [err |-> r.err, struct |-> r.struct, consumed |-> r.bytePos - offset]

\* entryOrder.indexOf(entryName)
IndexOf(order, entryName) ==
    IF ~InSeq(entryName, order) THEN -1
    ELSE (CHOOSE i \in 1..Len(order) :
             order[i] = entryName /\ \A k \in 1..(i - 1) : order[k] # entryName) - 1

\* what sizeFrom and sizeUntil return: null or a number
SizeNull == [isNull |-> TRUE, size |-> 0]
SizeValue(n) == [isNull |-> FALSE, size |-> n]

RECURSIVE SizeBetween(_, _, _)
SizeBetween(s, from, to) ==
    IF from > to THEN 0
    ELSE TypeSizes(s.map[s.entryOrder[from + 1]].type) + SizeBetween(s, from + 1, to)

\* sizeFrom(entryName, inclusive)
sizeFrom(s, entryName, inclusive) ==
    LET index == IndexOf(s.entryOrder, entryName)
    IN  IF index = -1 THEN SizeNull
        ELSE SizeValue(SizeBetween(s, IF inclusive THEN index ELSE index + 1,
                                   Len(s.entryOrder) - 1))

\* sizeUntil(entryName, inclusive)
sizeUntil(s, entryName, inclusive) ==
    LET index == IndexOf(s.entryOrder, entryName)
    IN  IF index = -1 THEN SizeNull
        ELSE SizeValue(SizeBetween(s, 0, IF inclusive THEN index ELSE index - 1))

\* Struct.FromBuffer(definition, buffer, offset)
FromBuffer(def, buffer, offset) ==
    LET s == NewStruct(def, <<>>)
    IN  IF s.threw # "" THEN [err |-> s.threw, struct |-> s, consumed |-> 0]
        ELSE readFromBuffer(s, buffer, offset)

(***************************************************************************)
(* The later serialiser: createBufferForStruct                             *)
(***************************************************************************)
RECURSIVE CbfsFrom(_, _, _, _)
CbfsFrom(def, data, w, i) ==
    IF i > Len(def) \/ w.err # "" THEN w
    ELSE CbfsFrom(def, data,
                  BufWrite(w.buf, def[i].type,
                           Coalesce(Prop(data, def[i].name), def[i].lit), w.pos),
                  i + 1)

\* createBufferForStruct(struct, data, extraSpaceAfter, extraSpaceBefore):
\* the buffer and bytePos
createBufferForStruct(def, data, extraSpaceAfter, extraSpaceBefore) ==
    CbfsFrom(def, data,
             [err |-> "",
              buf |-> BufferAlloc(extraSpaceBefore + byteSize(def) + extraSpaceAfter),
              pos |-> extraSpaceBefore],
             1)

(***************************************************************************)
(* nip.mjs: the writer's ZIP64 end record                                  *)
(***************************************************************************)
sizeOfFixedFields == 56

WriterEndRecordDataSwapped(centralDirectoryStart, centralDirectorySize, numEntries) ==
    [sizeOfCentralDirectoryRecord |-> JsBigInt(NumOf(44)),
     numEntries                   |-> JsBigInt(numEntries),
     centralDirectorySize         |-> JsBigInt(centralDirectoryStart),
     centralDirectoryStart        |-> JsBigInt(centralDirectorySize)]

WriterEndRecordData(centralDirectoryStart, centralDirectorySize, numEntries) ==
    [sizeOfCentralDirectoryRecord |-> JsBigInt(NumOf(sizeOfFixedFields - 12)),
     numEntries                   |-> JsBigInt(numEntries),
     centralDirectorySize         |-> JsBigInt(centralDirectorySize),
     centralDirectoryStart        |-> JsBigInt(centralDirectoryStart)]

\* createZIP64EndOfCentralDirectoryRecord
createZIP64EndOfCentralDirectoryRecord(centralDirectoryStart, centralDirectorySize, numEntries) ==
    createBufferForStruct(
        Structs.zip64EndOfCentralDirectoryRecord,
        WriterEndRecordData(centralDirectoryStart, centralDirectorySize, numEntries),
        0, 0)

(***************************************************************************)
(* nixip_read.mjs: readZip, from the locator's offset on                   *)
(***************************************************************************)
\* fd.read(Buffer.alloc(size), 0, size, position)
FdRead(bytes, size, at) ==
    LET bytesRead == IF at >= Len(bytes) THEN 0
                     ELSE IF Len(bytes) - at < size THEN Len(bytes) - at
                     ELSE size
    IN  [bytesRead |-> bytesRead,
         buffer    |-> [i \in 1..size |-> IF i <= bytesRead THEN bytes[at + i] ELSE 0]]

ValueOf(s, name) == IF name \in DOMAIN s.map THEN s.map[name].value.n ELSE NumZero

\* readZip lines 69-76: construct the Struct, read its size at the offset, decode
ReadZipEndRecord(bytes, relativeOffset) ==
    LET zip64EndOfCIR == NewStruct(Structs.zip64EndOfCentralDirectoryRecord, <<>>)
        size == StructSize(zip64EndOfCIR)
        rd == FdRead(bytes, size, relativeOffset)
        dec == readFromBuffer(zip64EndOfCIR, rd.buffer, 0)
        failed == [done |-> TRUE, err |-> zip64EndOfCIR.threw, size |-> 0, bytesRead |-> 0,
                   centralDirectoryStart |-> NumZero, centralDirectorySize |-> NumZero,
                   numEntries |-> NumZero]
    IN  IF zip64EndOfCIR.threw # "" THEN failed
        ELSE [done |-> TRUE, err |-> dec.err, size |-> size, bytesRead |-> rd.bytesRead,
              centralDirectoryStart |-> ValueOf(dec.struct, "centralDirectoryStart"),
              centralDirectorySize  |-> ValueOf(dec.struct, "centralDirectorySize"),
              numEntries            |-> ValueOf(dec.struct, "numEntries")]

(***************************************************************************)
(* The codec exercised: a definition and a data assignment are encoded by  *)
(* one of the two encoders, decoded again, sized, or read back by readZip  *)
(***************************************************************************)
MaxPad == 1        \* most extra space asked for before or after a record
NumSamples == 3    \* sample values tried per field type

SynMixed == << Field("a", u16), FieldLit("b", u32, NumOf(7)), Field("c", u64) >>

CodecDefs ==
    {Structs.zip64EndOfCentralDirectoryRecord, Structs.endOfCentralDirectoryRecord,
     Structs.zip64EndOfCentralDirectoryLocator, Structs.zip64DataDescriptor, SynMixed}

\* Sample 1 is small, sample 2 is the largest values of the width, the others
\* lie in between; idx keeps the values of different fields apart.
SampleNum(type, j, idx) ==
    IF j = 1 THEN NumOf(idx)
    ELSE IF j = 2 THEN
        CASE type = u16 -> <<0, 0, 0, Half - 1 - idx>>
          [] type = u32 -> <<0, 0, Half - 1, Half - 1 - idx>>
          [] type = u64 -> <<Half - 1, Half - 1, Half - 1, Half - 1 - idx>>
    ELSE
        CASE type = u16 -> <<0, 0, 0, ByteMod * (idx + j) + 1>>
          [] type = u32 -> <<0, 0, idx + j, 1>>
          [] type = u64 -> <<32 + j, idx, 0, 1>>

SampleValue(type, j, idx) ==
    IF type = u64 THEN JsBigInt(SampleNum(type, j, idx)) ELSE JsNumber(SampleNum(type, j, idx))

FirstIndex(def, name) == CHOOSE i \in 1..Len(def) :
    def[i].name = name /\ \A k \in 1..(i - 1) : def[k].name # name

MkData(def, S, j) ==
    [name \in S |-> SampleValue(def[FirstIndex(def, name)].type, j, FirstIndex(def, name))]

WriterEndRecordChoices ==
    {WriterEndRecordData(st, sz, n) :
        st \in {NumOf(100), <<0, 1, 0, 5>>}, sz \in {NumOf(46), <<0, 2, 0, 0>>},
        n \in {NumZero, NumOf(3)}}

DataChoices(def) ==
    {MkData(def, S, j) : S \in SUBSET FieldNames(def), j \in 1..NumSamples}
    \cup (IF def = Structs.zip64EndOfCentralDirectoryRecord THEN WriterEndRecordChoices ELSE {})

NoEnc == [encoder |-> "", err |-> "", buf |-> <<>>, written |-> 0, offset |-> 0]
NoDec == [err |-> "", values |-> <<>>, consumed |-> 0]
NoSizes == [done |-> FALSE, err |-> "", structSize |-> 0, byteSize |-> 0]
NoRz == [done |-> FALSE, err |-> "", size |-> 0, bytesRead |-> 0,
         centralDirectoryStart |-> NumZero, centralDirectorySize |-> NumZero,
         numEntries |-> NumZero]

NoField == [done |-> FALSE, name |-> "", inclusive |-> FALSE, threw |-> "",
            sizeFrom |-> SizeNull, sizeUntil |-> SizeNull]
NoShort == [done |-> FALSE, by |-> "", remaining |-> 0, err |-> "", returned |-> FALSE]

CodecIdle ==
    /\ cDef = <<>>
    /\ cData = <<>>
    /\ cPc = "idle"
    /\ cEnc = <<>>
    /\ cDec = <<>>
    /\ cSizes = <<>>
    /\ cRz = <<>>
    /\ cField = <<>>
    /\ cShort = <<>>

CodecInit ==
    /\ cDef \in CodecDefs
    /\ cData \in DataChoices(cDef)
    /\ cPc = "start"
    /\ cEnc = NoEnc
    /\ cDec = NoDec
    /\ cSizes = NoSizes
    /\ cRz = NoRz
    /\ cField = NoField
    /\ cShort = NoShort

\* new Struct(definition, data).createBuffer(extraSpace)
EncodeStruct ==
    /\ cPc = "start"
    /\ \E extraSpace \in 0..MaxPad :
        LET s == NewStruct(cDef, cData)
            w == createBuffer(s, extraSpace)
        IN  cEnc' = IF s.threw # ""
                    THEN [NoEnc EXCEPT !.encoder = "Struct", !.err = s.threw]
                    ELSE [encoder |-> "Struct", err |-> w.err, buf |-> w.buf,
                          written |-> w.written, offset |-> 0]
    /\ cPc' = "encoded"
    /\ UNCHANGED <<cDef, cData, cDec, cSizes, cRz, cField, cShort>>
    /\ UNCHANGED notCodec

\* createBufferForStruct(definition, data, extraSpaceAfter, extraSpaceBefore)
EncodeForStruct ==
    /\ cPc = "start"
    /\ \E extraSpaceAfter \in 0..MaxPad, extraSpaceBefore \in 0..MaxPad :
        LET w == createBufferForStruct(cDef, cData, extraSpaceAfter, extraSpaceBefore)
        IN  cEnc' = [encoder |-> "createBufferForStruct", err |-> w.err, buf |-> w.buf,
                     written |-> w.pos - extraSpaceBefore, offset |-> extraSpaceBefore]
    /\ cPc' = "encoded"
    /\ UNCHANGED <<cDef, cData, cDec, cSizes, cRz, cField, cShort>>
    /\ UNCHANGED notCodec

\* Struct.FromBuffer(definition, buffer, offset) on the encoder's buffer
Decode ==
    /\ cPc = "encoded"
    /\ cEnc.err = ""
    /\ LET r == FromBuffer(cDef, cEnc.buf, cEnc.offset)
       IN  cDec' = [err |-> r.err, values |-> r.struct.map, consumed |-> r.consumed]
    /\ cPc' = "decoded"
    /\ UNCHANGED <<cDef, cData, cEnc, cSizes, cRz, cField, cShort>>
    /\ UNCHANGED notCodec

\* new Struct(definition, data).size and prepareStructs' byteSize
Measure ==
    /\ cPc = "start"
    /\ LET s == NewStruct(cDef, cData)
       IN  cSizes' = [done |-> TRUE, err |-> s.threw,
                      structSize |-> IF s.threw # "" THEN 0 ELSE StructSize(s),
                      byteSize |-> byteSize(cDef)]
    /\ cPc' = "measured"
    /\ UNCHANGED <<cDef, cData, cEnc, cDec, cRz, cField, cShort>>
    /\ UNCHANGED notCodec

\* readZip on a file holding a ZIP64 end record at the locator's offset
ReadZip ==
    /\ cPc = "encoded"
    /\ cEnc.err = ""
    /\ cEnc.encoder = "createBufferForStruct"
    /\ cDef = Structs.zip64EndOfCentralDirectoryRecord
    /\ cRz' = ReadZipEndRecord(cEnc.buf, cEnc.offset)
    /\ cPc' = "read"
    /\ UNCHANGED <<cDef, cData, cEnc, cDec, cSizes, cField, cShort>>
    /\ UNCHANGED notCodec

MaxCut == 2        \* most bytes cut off the end of a buffer or file

UnknownField == "noSuchField"

\* new Struct(definition, data).sizeFrom / sizeUntil (entryName, inclusive)
FieldSizes ==
    /\ cPc = "start"
    /\ \E entryName \in FieldNames(cDef) \cup {UnknownField}, inclusive \in BOOLEAN :
        LET s == NewStruct(cDef, cData)
        IN  cField' = IF s.threw # ""
                      THEN [NoField EXCEPT !.done = TRUE, !.name = entryName,
                                           !.inclusive = inclusive, !.threw = s.threw]
                      ELSE [done |-> TRUE, name |-> entryName, inclusive |-> inclusive,
                            threw |-> "",
                            sizeFrom |-> sizeFrom(s, entryName, inclusive),
                            sizeUntil |-> sizeUntil(s, entryName, inclusive)]
    /\ cPc' = "fieldSizes"
    /\ UNCHANGED <<cDef, cData, cEnc, cDec, cSizes, cRz, cShort>>
    /\ UNCHANGED notCodec

CutShort(buf, cut) == SubSeq(buf, 1, Len(buf) - cut)

\* Struct.FromBuffer(definition, buffer, offset) on a buffer that ends early
DecodeShort ==
    /\ cPc = "encoded"
    /\ cEnc.err = ""
    /\ \E cut \in 1..MaxCut :
        LET buffer == CutShort(cEnc.buf, cut)
            r == FromBuffer(cDef, buffer, cEnc.offset)
        IN  cShort' = [done |-> TRUE, by |-> "FromBuffer",
                       remaining |-> Len(buffer) - cEnc.offset,
                       err |-> r.err, returned |-> r.err = ""]
    /\ cPc' = "short"
    /\ UNCHANGED <<cDef, cData, cEnc, cDec, cSizes, cRz, cField>>
    /\ UNCHANGED notCodec

\* readZip on a file that ends before the end of the ZIP64 end record
ReadZipShort ==
    /\ cPc = "encoded"
    /\ cEnc.err = ""
    /\ cEnc.encoder = "createBufferForStruct"
    /\ cDef = Structs.zip64EndOfCentralDirectoryRecord
    /\ \E cut \in 1..MaxCut :
        LET bytes == CutShort(cEnc.buf, cut)
            rz == ReadZipEndRecord(bytes, cEnc.offset)
        IN  cShort' = [done |-> TRUE, by |-> "readZip",
                       remaining |-> Len(bytes) - cEnc.offset,
                       err |-> rz.err, returned |-> rz.err = ""]
    /\ cPc' = "short"
    /\ UNCHANGED <<cDef, cData, cEnc, cDec, cSizes, cRz, cField>>
    /\ UNCHANGED notCodec

CodecNext ==
    \/ EncodeStruct \/ EncodeForStruct \/ Decode \/ Measure \/ ReadZip
    \/ FieldSizes \/ DecodeShort \/ ReadZipShort

(***************************************************************************)
(* Properties of the codec                                                 *)
(***************************************************************************)
\* C3: readZip, given the offset of an end record the writer produced, reads
\* exactly the 56 bytes of the record and decodes the centralDirectoryStart,
\* centralDirectorySize and numEntries the writer encoded.
C3_EndRecordReadBack ==
    (cRz.done /\ cData \in WriterEndRecordChoices) =>
        /\ cRz.err = ""
        /\ cRz.size = sizeOfFixedFields
        /\ cRz.bytesRead = sizeOfFixedFields
        /\ cRz.centralDirectoryStart = cData.centralDirectoryStart.n
        /\ cRz.centralDirectorySize = cData.centralDirectorySize.n
        /\ cRz.numEntries = cData.numEntries.n

\* C4: for every definition and every data assignment whose values fit, the
\* Struct encoder succeeds, and decoding an encoder's buffer at the same
\* offset gives back every supplied field and consumes as many bytes as were
\* written.
C4_RoundTrip ==
    /\ (cPc = "encoded" /\ cEnc.encoder = "Struct") => cEnc.err = ""
    /\ cPc = "decoded" =>
        /\ cDec.err = ""
        /\ \A name \in DOMAIN cData : cDec.values[name].value.n = cData[name].n
        /\ cDec.consumed = cEnc.written

FieldOffset(def, i) == byteSize(SubSeq(def, 1, i - 1))

ExpectedWhenOmitted(f) == IF f.lit # Undefined THEN f.lit[1].n ELSE NumZero

\* C5: in both encoders a field the data does not supply is encoded as its
\* literal, or as zero when it has none, and the encoding does not fail.
\* (Definitions that repeat a name are left out here: the Struct encoder
\* fails on them whatever the data supplies.)
C5_OmittedFieldsDefault ==
    (cPc = "encoded" /\ DistinctNames(cDef)) =>
        /\ cEnc.err = ""
        /\ \A i \in 1..Len(cDef) :
             cDef[i].name \notin DOMAIN cData =>
                GetBytes(cEnc.buf, cEnc.offset + FieldOffset(cDef, i), TypeSizes(cDef[i].type))
                    = ExpectedWhenOmitted(cDef[i])

DeclaredWidthSum(def) ==
    2 * Cardinality({i \in 1..Len(def) : def[i].type = u16})
    + 4 * Cardinality({i \in 1..Len(def) : def[i].type = u32})
    + 8 * Cardinality({i \in 1..Len(def) : def[i].type = u64})

\* C6: for every definition, repeated field names included, Struct.size and
\* prepareStructs' byteSize both equal the sum of the declared widths.
C6_SizeIsSumOfWidths ==
    cSizes.done =>
        /\ cSizes.err = ""
        /\ cSizes.structSize = DeclaredWidthSum(cDef)
        /\ cSizes.byteSize = DeclaredWidthSum(cDef)

\* C21: sizeUntil and sizeFrom fail with a FieldNotFound error when given a
\* field name the definition does not declare, and return no size for it.
C21_UnknownFieldFails ==
    (cField.done /\ cField.name \notin FieldNames(cDef)) =>
        /\ cField.threw = "FieldNotFound"
        /\ cField.sizeFrom.isNull
        /\ cField.sizeUntil.isNull

\* C22: decoding a definition at an offset where fewer bytes remain than the
\* definition's size fails with a DecodeError (the buffer's out-of-range
\* error) and yields no record, in Struct.FromBuffer and in readZip alike.
C22_ShortBufferFails ==
    (cShort.done /\ cShort.remaining < byteSize(cDef)) =>
        /\ cShort.err = "RangeError"
        /\ ~cShort.returned

(***************************************************************************)
(* nixip_read.mjs: findZip64Locator                                        *)
(***************************************************************************)
searchSize == 2048
sizeOfCentralDirectoryLocator == 20
MaxReads == 4       \* window reads after which the model stops following the loop

\* createZIP64EndOfCentralDirectoryLocator (nip.mjs)
createZIP64EndOfCentralDirectoryLocator(relativeOffset) ==
    createBufferForStruct(Structs.zip64EndOfCentralDirectoryLocator,
                          [relativeOffset |-> JsBigInt(relativeOffset)], 0, 0)

\* signatureBuffer: the signature written with writeUint32LE
signatureBuffer ==
    PutBytes(BufferAlloc(4), 0, Signatures.zip64EndOfCentralDirectoryLocator, 4)

\* An archive file: size bytes of fill, a locator record at locPos (-1: none)
\* and a further occurrence of the bare signature at decoy (-1: none).
FileByte(f, i) ==
    IF f.locPos >= 0 /\ i >= f.locPos /\ i < f.locPos + Len(f.locBytes)
    THEN f.locBytes[i - f.locPos + 1]
    ELSE IF f.decoy >= 0 /\ i >= f.decoy /\ i < f.decoy + Len(signatureBuffer)
    THEN signatureBuffer[i - f.decoy + 1]
    ELSE f.fill

Max(a, b) == IF a >= b THEN a ELSE b
Min(a, b) == IF a <= b THEN a ELSE b

FileSizes ==
    {0, 20, 42, 100, searchSize, searchSize + 1, searchSize + 42,
     2 * searchSize, 3 * searchSize + 7}

RelOffsets == {NumOf(1234), <<0, 1, 0, 56>>}

Disjoint(a, la, b, lb) == a + la <= b \/ b + lb <= a

LocPositions(sz) ==
    {-1} \cup {q \in {0, 5, sz - 20, sz - 42, sz - 1000, sz - searchSize, sz - 2058,
                       sz - 2100} :
                q >= 0 /\ q + sizeOfCentralDirectoryLocator <= sz}

DecoyPositions(sz) ==
    {-1} \cup {q \in {0, sz - 4, sz - 60, sz - 2047, sz - 2050} : q >= 0 /\ q + 4 <= sz}

FilesOfSize(sz) ==
    {[size |-> sz, locPos |-> p, relOff |-> ro, decoy |-> d, fill |-> fl,
      locBytes |-> IF p >= 0 THEN createZIP64EndOfCentralDirectoryLocator(ro).buf ELSE <<>>] :
        p \in LocPositions(sz), ro \in RelOffsets, d \in DecoyPositions(sz), fl \in {0, 170}}

FileChoices == UNION {FilesOfSize(sz) : sz \in FileSizes}

WellFormedFile(f) ==
    /\ f.locPos = -1 => f.relOff = NumOf(1234)
    /\ (f.locPos >= 0 /\ f.decoy >= 0) => Disjoint(f.locPos, 20, f.decoy, 4)

\* The window buffer after a read at pos that returned n bytes.  Every read
\* of one scan returns the same number of bytes (min(searchSize, size)), so
\* the bytes beyond n are still the zeros of Buffer.alloc.
BufByte(f, pos, n, i) == IF i < n THEN FileByte(f, pos + i) ELSE 0

WindowBuffer(f, pos, n) == [i \in 1..searchSize |-> BufByte(f, pos, n, i - 1)]

\* buffer.indexOf(signatureBuffer)
IndexOfSignature(f, pos, n) ==
    LET hits == {i \in 0..(searchSize - Len(signatureBuffer)) :
                    \A k \in 1..Len(signatureBuffer) :
                        BufByte(f, pos, n, i + k - 1) = signatureBuffer[k]}
    IN  IF hits = {} THEN -1 ELSE CHOOSE i \in hits : \A j \in hits : i <= j

NoLocator == [state |-> "null", relativeOffset |-> NumZero]

LocIdle ==
    /\ file = <<>>
    /\ lPc = "idle"
    /\ negativeOffset = 0
    /\ position = 0
    /\ lastBytesRead = 0
    /\ signatureOffset = 0
    /\ locator = <<>>
    /\ reads = 0
    /\ windows = <<>>

LocInit ==
    /\ file \in {f \in FileChoices : WellFormedFile(f)}
    /\ lPc = "scan"
    /\ negativeOffset = 0
    /\ position = 0
    /\ lastBytesRead = 0
    /\ signatureOffset = -1
    /\ locator = NoLocator
    /\ reads = 0
    /\ windows = <<>>

WindowPosition(size, negOff) == Max(0, size - searchSize - negOff)

growByWindow(negOff) == negOff + searchSize

\* negativeOffset += (searchSize - signatureBuffer.length)
growNegativeOffset(negOff) == negOff + (searchSize - Len(signatureBuffer))

\* one iteration of while (!found)
ScanWindow ==
    /\ lPc = "scan"
    /\ reads < MaxReads
    /\ LET pos == WindowPosition(file.size, negativeOffset)
           bytesRead == Min(searchSize, file.size - pos)
           bufferOffset == IndexOfSignature(file, pos, bytesRead)
       IN  /\ position' = pos
           /\ lastBytesRead' = bytesRead
           /\ IF bufferOffset = -1
              THEN /\ negativeOffset' = growNegativeOffset(negativeOffset)
                   /\ UNCHANGED <<lPc, signatureOffset>>
              ELSE /\ lPc' = "found"
                   /\ signatureOffset' = pos + bufferOffset
                   /\ UNCHANGED negativeOffset
           /\ windows' = Append(windows, [position |-> pos, bytesRead |-> bytesRead])
    /\ reads' = reads + 1
    /\ UNCHANGED <<file, locator>>
    /\ UNCHANGED notLoc

\* if (found) { ... } return locator
ParseLocator ==
    /\ lPc = "found"
    /\ LET bytesAfterSignature == lastBytesRead - signatureOffset
           r == FromBuffer(Structs.zip64EndOfCentralDirectoryLocator,
                           WindowBuffer(file, position, lastBytesRead), signatureOffset)
       IN  locator' =
             IF bytesAfterSignature < sizeOfCentralDirectoryLocator THEN NoLocator
             ELSE IF r.err # "" THEN [state |-> r.err, relativeOffset |-> NumZero]
             ELSE [state |-> "struct", relativeOffset |-> ValueOf(r.struct, "relativeOffset")]
    /\ lPc' = "done"
    /\ UNCHANGED <<file, negativeOffset, position, lastBytesRead, signatureOffset, reads,
                   windows>>
    /\ UNCHANGED notLoc

LocNext == ScanWindow \/ ParseLocator

\* the locator record lies wholly within the last searchSize bytes of the
\* file, and the signature occurs nowhere else in that window
LocatorInLastWindow(f) ==
    /\ f.locPos >= 0
    /\ f.locPos >= f.size - searchSize
    /\ (f.decoy = -1 \/ f.decoy + Len(signatureBuffer) <= f.size - searchSize)

\* C1: when a well-formed locator record lies within the last 2048 bytes of
\* the file, findZip64Locator returns a locator whose relativeOffset is the
\* 64-bit value encoded in the record, for files of any size.
C1_LocatorDecoded ==
    (lPc = "done" /\ LocatorInLastWindow(file)) =>
        /\ locator.state = "struct"
        /\ locator.relativeOffset = file.relOff

\* C2: on a file without the signature the scan stops once a window read at
\* file position 0 has found nothing (and reports LocatorNotFound).
C2_StopsAtFileStart ==
    (file.locPos = -1 /\ file.decoy = -1 /\ reads >= 1 /\ position = 0) => lPc # "scan"

\* C24: when the signature was found with fewer than 20 bytes of the record
\* after it in the window, the file is read again at the signature's offset
\* and a decoded locator is returned; a null locator is never returned once
\* the signature was found.
C24_NoNullAfterFound ==
    lPc = "done" => locator.state = "struct"

\* the windows read while nothing was found lie where the scan rule puts them
ExpectedPosition(size, j) ==
    Max(0, size - searchSize - (j - 1) * (searchSize - Len(signatureBuffer)))

Misses == IF lPc = "scan" THEN Len(windows) ELSE Len(windows) - 1

Covered(a) ==
    \E j \in 1..Len(windows) :
        /\ windows[j].position <= a
        /\ a + Len(signatureBuffer) <= windows[j].position + windows[j].bytesRead

\* C28: while nothing is found each retry reads at
\* max(0, fileSize - 2048 - negativeOffset) with negativeOffset grown by
\* 2048 - 4 per miss; consecutive unclamped windows overlap by exactly 4
\* bytes, and every 4-byte run of the region scanned so far lies wholly
\* within at least one window read.
C28_WindowsOverlap ==
    lPc # "idle" =>
        /\ negativeOffset = Misses * (searchSize - 4)
        /\ \A j \in 1..Len(windows) :
              windows[j].position = ExpectedPosition(file.size, j)
        /\ \A j \in 1..(Len(windows) - 1) :
              file.size - searchSize - j * (searchSize - 4) >= 0 =>
                 (windows[j + 1].position + searchSize) - windows[j].position = 4
        /\ windows # <<>> =>
              \A a \in windows[Len(windows)].position..(file.size - 4) : Covered(a)

C28_Witness ==
    /\ lPc = "found"
    /\ Len(windows) = 2
    /\ windows[2].position > 0
    /\ windows[1].position = windows[2].position + searchSize - 4
    /\ signatureOffset = windows[1].position - 2

\* C30: when the signature occurs more than once in the file, the occurrence
\* nearest the end of the file (the real locator) is the one selected.
C30_LastOccurrenceSelected ==
    (lPc = "done" /\ file.decoy >= 0 /\ file.decoy < file.locPos) =>
        signatureOffset = file.locPos

(***************************************************************************)
(* nip.mjs: the archive writer                                             *)
(***************************************************************************)
MaxFiles == 2      \* longest file list
MaxOut == 2        \* longest chunk the deflate stage emits at once

\* Strings are sequences of code points; Buffer.from(string) is UTF-8.
Slash == 47
Backslash == 92

Utf8Len(cp) == IF cp < 128 THEN 1 ELSE IF cp < 2048 THEN 2 ELSE 3

RECURSIVE Utf8Length(_)
Utf8Length(str) == IF str = <<>> THEN 0 ELSE Utf8Len(Head(str)) + Utf8Length(Tail(str))

RECURSIVE FileNameFrom(_, _, _)
FileNameFrom(filePath, i, fileName) ==
    IF i > Len(filePath) THEN fileName
    ELSE IF filePath[i] = Slash \/ filePath[i] = Backslash
         THEN FileNameFrom(filePath, i + 1, <<>>)
         ELSE FileNameFrom(filePath, i + 1, Append(fileName, filePath[i]))

getFileNameFromPath(filePath) == FileNameFrom(filePath, 1, <<>>)

Flags == [Descriptor |-> 8, UTF8 |-> 2048]
CompressionMethods == [store |-> 0, deflate |-> 8]

createFileInfoObject(fileName, localHeaderOffset) ==
    [versionNeededToExtract      |-> 45,
     generalPurposeBitFlag       |-> Flags.Descriptor + Flags.UTF8,
     compressionMethod           |-> CompressionMethods.deflate,
     lastModFileTime             |-> 0,
     lastModFileDate             |-> 0,
     crc32                       |-> CrcSeed,
     compressedSize              |-> 0,
     uncompressedSize            |-> 0,
     fileName                    |-> fileName,
     versionMadeby               |-> 45,
     fileComment                 |-> <<>>,
     diskNumberStart             |-> 0,
     internalFileAttributes      |-> 0,
     externalFileAttributes      |-> 0,
     relativeOffsetOfLocalHeader |-> localHeaderOffset]

\* comparison of 64-bit quantities
RECURSIVE NumLessFrom(_, _, _)
NumLessFrom(a, b, i) ==
    IF i > 4 THEN FALSE
    ELSE IF a[i] # b[i] THEN a[i] < b[i]
    ELSE NumLessFrom(a, b, i + 1)

NumLess(a, b) == NumLessFrom(a, b, 1)

Sentinel32 == <<0, 0, Half - 1, Half - 1>>      \* 0xffffffff

\* createFileHeader lines 153-166: the fields moved to the ZIP64 extra field
zip64Fields(fileInfo, isCentralDirectory) ==
    IF ~isCentralDirectory THEN {}
    ELSE (IF ~NumLess(fileInfo.uncompressedSize, Sentinel32)
             \/ ~NumLess(fileInfo.compressedSize, Sentinel32)
          THEN {"compressedSize", "uncompressedSize"} ELSE {})
         \cup
         (IF NumLess(Sentinel32, fileInfo.relativeOffsetOfLocalHeader)
          THEN {"relativeOffsetOfLocalHeader"} ELSE {})

headerSizeNoComment(fileInfo, isCentralDirectory) ==
    (IF isCentralDirectory THEN 46 ELSE 30)
    + Utf8Length(fileInfo.fileName)
    + (IF zip64Fields(fileInfo, isCentralDirectory) # {}
       THEN 4 + Cardinality(zip64Fields(fileInfo, isCentralDirectory)) * 8 ELSE 0)

\* createFileHeader: the length of the header it returns (headerSize)
headerSize(fileInfo, isCentralDirectory) ==
    LET fields == zip64Fields(fileInfo, isCentralDirectory)
    IN  (IF isCentralDirectory THEN 46 ELSE 30)
        + Utf8Length(fileInfo.fileName)
        + (IF fields # {} THEN 4 + Cardinality(fields) * 8 ELSE 0)
        + (IF isCentralDirectory THEN Utf8Length(fileInfo.fileComment) ELSE 0)

\* The writer keeps sizes and offsets as Numbers; the record builders below
\* take them as 64-bit quantities.
WideInfo(fileInfo) ==
    [fileInfo EXCEPT !.uncompressedSize = NumOf(@),
                     !.compressedSize = NumOf(@),
                     !.relativeOffsetOfLocalHeader = NumOf(@)]

\* Buffer.from(string): the UTF-8 bytes
Utf8Encode(cp) ==
    IF cp < 128 THEN <<cp>>
    ELSE IF cp < 2048 THEN <<192 + (cp \div 64), 128 + (cp % 64)>>
    ELSE <<224 + (cp \div 4096), 128 + ((cp \div 64) % 64), 128 + (cp % 64)>>

RECURSIVE BufferFrom(_)
BufferFrom(str) == IF str = <<>> THEN <<>> ELSE Utf8Encode(Head(str)) \o BufferFrom(Tail(str))

\* source.copy(target, targetStart): copies what fits, returns the count
BufferCopy(source, target, targetStart) ==
    [i \in 1..Len(target) |->
        IF i - 1 >= targetStart /\ i - 1 < targetStart + Len(source)
        THEN source[i - targetStart] ELSE target[i]]

\* a run of bytesWritten = buffer.writeXxx(value, bytesWritten) statements
Item(type, value) == [type |-> type, value |-> value]

RECURSIVE WriteItems(_, _, _)
WriteItems(w, items, i) ==
    IF i > Len(items) \/ w.err # "" THEN w
    ELSE WriteItems(BufWrite(w.buf, items[i].type, Some(items[i].value), w.pos), items, i + 1)

\* the zip64Fields object of createFileHeader: promoted names and their values
zip64FieldValues(fileInfo, isCentralDirectory) ==
    [name \in zip64Fields(fileInfo, isCentralDirectory) |-> fileInfo[name]]

\* createZIP64ExtraField(zip64Fields, isCentralDirectory)
createZIP64ExtraField(fields, isCentralDirectory) ==
    LET optionalFieldsLength == Cardinality(DOMAIN fields) * 8
        sizeOf(name) == JsBigInt(IF isCentralDirectory THEN fields[name] ELSE NumZero)
        items ==
            << Item(u16, JsNumber(NumOf(1))),
               Item(u16, JsNumber(NumOf(optionalFieldsLength))) >>
            \o (IF "uncompressedSize" \in DOMAIN fields
                THEN << Item(u64, sizeOf("uncompressedSize")) >> ELSE <<>>)
            \o (IF "compressedSize" \in DOMAIN fields
                THEN << Item(u64, sizeOf("compressedSize")) >> ELSE <<>>)
            \o (IF "relativeOffsetOfLocalHeader" \in DOMAIN fields
                THEN << Item(u64, JsBigInt(fields.relativeOffsetOfLocalHeader)) >> ELSE <<>>)
    IN  WriteItems([err |-> "", buf |-> BufferAlloc(4 + optionalFieldsLength), pos |-> 0],
                   items, 1)

PrimarySlotUnchanged(fileInfo, name, fields) == fileInfo[name]

\* createFileHeader lines 159-165: what the primary slot of a field holds
PrimarySlot(fileInfo, name, fields) ==
    IF name \in fields THEN Sentinel32 ELSE fileInfo[name]

CrcSlotAlways(crc32, isCentralDirectory) ==
    IF IsNegative(crc32) THEN <<Half - 1, Half - 1, crc32.hi, crc32.lo>>
    ELSE <<0, 0, crc32.hi, crc32.lo>>

\* header.writeUInt32LE(isCentralDirectory ? fileInfo.crc32 : 0): the crc is
\* a Uint32 once finalized, an Int32 (possibly negative) before
CrcSlot(crc32, isCentralDirectory) ==
    IF ~isCentralDirectory THEN NumZero
    ELSE IF IsNegative(crc32) THEN <<Half - 1, Half - 1, crc32.hi, crc32.lo>>
    ELSE <<0, 0, crc32.hi, crc32.lo>>

\* createFileHeader(originalFileInfo, isCentralDirectory): [err, buf]
createFileHeader(originalFileInfo, isCentralDirectory) ==
    LET fileNameBuffer == BufferFrom(originalFileInfo.fileName)
        fields == zip64FieldValues(originalFileInfo, isCentralDirectory)
        promoted == DOMAIN fields
        zip64Header == createZIP64ExtraField(fields, isCentralDirectory)
        extraFieldLength == IF promoted # {} THEN Len(zip64Header.buf) ELSE 0
        fileCommentBuffer == BufferFrom(originalFileInfo.fileComment)
        fileCommentLength == IF isCentralDirectory THEN Len(fileCommentBuffer) ELSE 0
        num(n) == JsNumber(NumOf(n))
        zero == JsNumber(NumZero)
        slot(name) == IF isCentralDirectory
                      THEN JsNumber(PrimarySlot(originalFileInfo, name, promoted))
                      ELSE zero
        items ==
            << Item(u32, JsNumber(IF isCentralDirectory
                                  THEN Signatures.centralDirectoryHeader
                                  ELSE Signatures.localFileHeader)) >>
            \o (IF isCentralDirectory
                THEN << Item(u16, num(originalFileInfo.versionMadeby)) >> ELSE <<>>)
            \o << Item(u16, num(originalFileInfo.versionNeededToExtract)),
                  Item(u16, num(originalFileInfo.generalPurposeBitFlag)),
                  Item(u16, num(originalFileInfo.compressionMethod)),
                  Item(u16, num(originalFileInfo.lastModFileTime)),
                  Item(u16, num(originalFileInfo.lastModFileDate)),
                  Item(u32, JsNumber(CrcSlot(originalFileInfo.crc32, isCentralDirectory))),
                  Item(u32, slot("compressedSize")),
                  Item(u32, slot("uncompressedSize")),
                  Item(u16, num(Len(fileNameBuffer))),
                  Item(u16, num(extraFieldLength)) >>
            \o (IF isCentralDirectory
                THEN << Item(u16, num(fileCommentLength)),
                        Item(u16, zero),
                        Item(u16, num(originalFileInfo.internalFileAttributes)),
                        Item(u32, num(originalFileInfo.externalFileAttributes)),
                        Item(u32, slot("relativeOffsetOfLocalHeader")) >>
                ELSE <<>>)
        fixed == WriteItems([err |-> "",
                             buf |-> BufferAlloc(headerSize(originalFileInfo, isCentralDirectory)),
                             pos |-> 0],
                            items, 1)
        withName == BufferCopy(fileNameBuffer, fixed.buf, fixed.pos)
        afterName == fixed.pos + Len(fileNameBuffer)
        withExtra == IF extraFieldLength > 0
                     THEN BufferCopy(zip64Header.buf, withName, afterName)
                     ELSE withName
        afterExtra == afterName + extraFieldLength
        withComment == IF isCentralDirectory /\ fileCommentLength > 0
                       THEN BufferCopy(fileCommentBuffer, withExtra, afterExtra)
                       ELSE withExtra
    IN  IF promoted # {} /\ zip64Header.err # ""
        THEN [err |-> zip64Header.err, buf |-> <<>>]
        ELSE IF fixed.err # ""
        THEN [err |-> fixed.err, buf |-> <<>>]
        ELSE [err |-> "", buf |-> withComment]

\* createFileHeader lines 149-174: the local fileInfo once the sentinels and
\* extraFieldLength have been assigned to it
HeaderFileInfo(originalFileInfo, isCentralDirectory) ==
    LET fields == zip64FieldValues(originalFileInfo, isCentralDirectory)
        promoted == DOMAIN fields
        slot(name) == IF isCentralDirectory
                      THEN PrimarySlot(originalFileInfo, name, promoted)
                      ELSE originalFileInfo[name]
        assigned == [originalFileInfo EXCEPT
                        !.compressedSize = slot("compressedSize"),
                        !.uncompressedSize = slot("uncompressedSize"),
                        !.relativeOffsetOfLocalHeader = slot("relativeOffsetOfLocalHeader")]
        extraFieldLength == IF promoted # {} THEN 4 + Cardinality(promoted) * 8 ELSE 0
    IN  [name \in DOMAIN assigned \cup {"extraFieldLength"} |->
            IF name = "extraFieldLength" THEN extraFieldLength ELSE assigned[name]]

\* createFileHeader line 149: fileInfo is a new object ({...originalFileInfo}
\* copies the properties, all of them primitive values), so the caller's
\* object is what it was
CallerFileInfo(originalFileInfo, isCentralDirectory) == originalFileInfo

\* endZip lines 373-378: createFileHeader(fileInfo, true) for each entry of
\* state.fileInfoList in turn, up to the first that throws
RECURSIVE CentralDirectoryLoop(_, _, _)
CentralDirectoryLoop(list, i, headers) ==
    IF i > Len(list) THEN [err |-> "", list |-> list, headers |-> headers]
    ELSE LET centralDirectoryRecord == createFileHeader(list[i], TRUE)
             after == [list EXCEPT ![i] = CallerFileInfo(list[i], TRUE)]
         IN  IF centralDirectoryRecord.err # ""
             THEN [err |-> centralDirectoryRecord.err, list |-> after, headers |-> headers]
             ELSE CentralDirectoryLoop(after, i + 1,
                                       Append(headers, centralDirectoryRecord.buf))

Saturate16(n) == NumOf(Half - 1)

\* createEndOfCentralDirectoryRecord lines 284-286
Clamp16(n) == IF ~NumLess(n, NumOf(Half - 1)) THEN NumOf(Half - 1) ELSE n

NoClamp32(n) == n

\* createEndOfCentralDirectoryRecord lines 288-294
Clamp32(n) == IF ~NumLess(n, Sentinel32) THEN Sentinel32 ELSE n

\* createEndOfCentralDirectoryRecord with the default empty zipFileComment;
\* record.write("", bytesWritten) stores nothing
createEndOfCentralDirectoryRecord(centralDirectoryStart, centralDirectorySize, numEntries) ==
    createBufferForStruct(
        Structs.endOfCentralDirectoryRecord,
        [numEntries            |-> JsNumber(Clamp16(numEntries)),
         centralDirectorySize  |-> JsNumber(Clamp32(centralDirectorySize)),
         centralDirectoryStart |-> JsNumber(Clamp32(centralDirectoryStart)),
         zipFileCommentLength  |-> JsNumber(NumZero)],
        0, 0)

DescriptorDataSwapped(fileInfo) ==
    [crc32            |-> JsNumber(CrcSlot(fileInfo.crc32, TRUE)),
     compressedSize   |-> JsBigInt(NumOf(fileInfo.uncompressedSize)),
     uncompressedSize |-> JsBigInt(NumOf(fileInfo.compressedSize))]

\* createZIP64DataDescriptor lines 316-320: the properties of
\* {...fileInfo, compressedSize: BigInt(..), uncompressedSize: BigInt(..)}
\* that the record declares; crc32 is the number fileInfo holds
DescriptorData(fileInfo) ==
    [crc32            |-> JsNumber(CrcSlot(fileInfo.crc32, TRUE)),
     compressedSize   |-> JsBigInt(NumOf(fileInfo.compressedSize)),
     uncompressedSize |-> JsBigInt(NumOf(fileInfo.uncompressedSize))]

\* createZIP64DataDescriptor
createZIP64DataDescriptor(fileInfo) ==
    createBufferForStruct(Structs.zip64DataDescriptor, DescriptorData(fileInfo), 0, 0)

\* a write handed to state.writeStream: a record (bytes) or, for payload
\* chunks, its length alone
Segment(kind, entry, len) == [kind |-> kind, entry |-> entry, len |-> len, bytes |-> <<>>]

RecordSegment(kind, entry, buf) ==
    [kind |-> kind, entry |-> entry, len |-> Len(buf), bytes |-> buf]

EmptyPipe ==
    [src |-> <<>>, srcEnded |-> FALSE, q1 |-> <<>>, t1Ended |-> FALSE, q2 |-> <<>>,
     deflEnded |-> FALSE, emitted |-> 0, q3 |-> <<>>, q4 |-> <<>>, t2Ended |-> FALSE,
     srcOpen |-> FALSE, failed |-> "none"]

FileSamples ==
    {[path |-> <<97>>, chunks |-> <<>>],
     [path |-> <<47, 100, 47, 50976>>, chunks |-> << <<97>>, <<98, 99>> >>],
     [path |-> <<99, 58, 92, 120>>, chunks |-> << <<97, 97>> >>]}

FileLists == SeqsUpTo(FileSamples, MaxFiles)

WriterIdle ==
    /\ inputs = <<>>
    /\ wPc = "idle"
    /\ nextFile = 0
    /\ state = <<>>
    /\ sink = <<>>
    /\ pipe = <<>>

\* startZip, at the head of createZipFromFileList
WriterInit ==
    /\ inputs \in FileLists
    /\ wPc = "loop"
    /\ nextFile = 1
    /\ state = [writeStream |-> "open", currentPosInWriteStream |-> 0, fileInfoList |-> <<>>]
    /\ sink = <<>>
    /\ pipe = EmptyPipe

Current == Len(state.fileInfoList)

\* addFileToZip up to await finished(t2)
AddFileStart ==
    /\ wPc = "loop"
    /\ nextFile <= Len(inputs)
    /\ LET fileName == getFileNameFromPath(inputs[nextFile].path)
           fileInfo == createFileInfoObject(fileName, state.currentPosInWriteStream)
           localFileHeader == createFileHeader(WideInfo(fileInfo), FALSE).buf
           length == Len(localFileHeader)
       IN  /\ state' = [state EXCEPT
                 !.currentPosInWriteStream = @ + length,
                 !.fileInfoList = Append(@, fileInfo)]
           /\ sink' = Append(sink, RecordSegment("lfh", Current + 1, localFileHeader))
    /\ pipe' = [EmptyPipe EXCEPT !.src = inputs[nextFile].chunks, !.srcOpen = TRUE]
    /\ wPc' = "streaming"
    /\ UNCHANGED <<inputs, nextFile>>
    /\ UNCHANGED notWriter

\* readStream "data": the chunk is written to t1
SrcData ==
    /\ wPc = "streaming"
    /\ pipe.src # <<>>
    /\ pipe' = [pipe EXCEPT !.src = Tail(pipe.src), !.q1 = Append(pipe.q1, Head(pipe.src))]
    /\ UNCHANGED <<inputs, wPc, nextFile, state, sink>>
    /\ UNCHANGED notWriter

\* readStream "end": pipe ends t1, and the stream (autoClose) closes its file
SrcEnd ==
    /\ wPc = "streaming"
    /\ pipe.src = <<>>
    /\ ~pipe.srcEnded
    /\ pipe' = [pipe EXCEPT !.srcEnded = TRUE, !.srcOpen = FALSE]
    /\ UNCHANGED <<inputs, wPc, nextFile, state, sink>>
    /\ UNCHANGED notWriter

\* t1.transform
T1Transform ==
    /\ wPc = "streaming"
    /\ pipe.q1 # <<>>
    /\ LET chunk == Head(pipe.q1)
       IN  /\ state' = [state EXCEPT
                 !.fileInfoList[Current].uncompressedSize = @ + Len(chunk),
                 !.fileInfoList[Current].crc32 = updateCRC(chunk, @)]
           /\ pipe' = [pipe EXCEPT !.q1 = Tail(pipe.q1), !.q2 = Append(pipe.q2, chunk)]
    /\ UNCHANGED <<inputs, wPc, nextFile, sink>>
    /\ UNCHANGED notWriter

\* t1 has passed everything on: pipe ends the deflate stage
T1End ==
    /\ wPc = "streaming"
    /\ pipe.srcEnded /\ pipe.q1 = <<>> /\ ~pipe.t1Ended
    /\ pipe' = [pipe EXCEPT !.t1Ended = TRUE]
    /\ UNCHANGED <<inputs, wPc, nextFile, state, sink>>
    /\ UNCHANGED notWriter

\* the deflate stage takes a chunk and emits nothing or a chunk of n bytes
Deflate ==
    /\ wPc = "streaming"
    /\ pipe.q2 # <<>>
    /\ \E n \in 0..MaxOut :
        pipe' = [pipe EXCEPT !.q2 = Tail(pipe.q2),
                             !.q3 = IF n = 0 THEN @ ELSE Append(@, n),
                             !.emitted = @ + n]
    /\ UNCHANGED <<inputs, wPc, nextFile, state, sink>>
    /\ UNCHANGED notWriter

\* the deflate stage flushes its final block and ends
DeflateEnd ==
    /\ wPc = "streaming"
    /\ pipe.t1Ended /\ pipe.q2 = <<>> /\ ~pipe.deflEnded
    /\ \E n \in 1..MaxOut :
        pipe' = [pipe EXCEPT !.q3 = Append(@, n), !.emitted = @ + n, !.deflEnded = TRUE]
    /\ UNCHANGED <<inputs, wPc, nextFile, state, sink>>
    /\ UNCHANGED notWriter

T2AdvanceNone(pos, n) == pos

\* state.currentPosInWriteStream += chunk.length
T2Advance(pos, n) == pos + n

\* t2.transform
T2Transform ==
    /\ wPc = "streaming"
    /\ pipe.q3 # <<>>
    /\ LET n == Head(pipe.q3)
       IN  /\ state' = [state EXCEPT
                 !.fileInfoList[Current].compressedSize = @ + n,
                 !.currentPosInWriteStream = T2Advance(@, n)]
           /\ pipe' = [pipe EXCEPT !.q3 = Tail(pipe.q3), !.q4 = Append(pipe.q4, n)]
    /\ UNCHANGED <<inputs, wPc, nextFile, sink>>
    /\ UNCHANGED notWriter

\* t2 "data": pipe writes the chunk to state.writeStream
T2Pipe ==
    /\ wPc = "streaming"
    /\ pipe.q4 # <<>>
    /\ sink' = Append(sink, Segment("data", Current, Head(pipe.q4)))
    /\ pipe' = [pipe EXCEPT !.q4 = Tail(pipe.q4)]
    /\ UNCHANGED <<inputs, wPc, nextFile, state>>
    /\ UNCHANGED notWriter

\* t2 "end": everything t2 held has been read out of it
T2End ==
    /\ wPc = "streaming"
    /\ pipe.deflEnded /\ pipe.q3 = <<>> /\ pipe.q4 = <<>> /\ ~pipe.t2Ended
    /\ pipe' = [pipe EXCEPT !.t2Ended = TRUE]
    /\ UNCHANGED <<inputs, wPc, nextFile, state, sink>>
    /\ UNCHANGED notWriter

Stages == {"readStream", "t1", "deflate", "t2", "writeStream"}

StageRunning(stage) ==
    CASE stage = "readStream" -> ~pipe.srcEnded
      [] stage = "t1" -> ~pipe.t1Ended
      [] stage = "deflate" -> ~pipe.deflEnded
      [] stage = "t2" -> ~pipe.t2Ended
      [] stage = "writeStream" -> TRUE

\* A stage emits "error".  pipe() forwards no error: it listens on its
\* destination only to unpipe, and re-emits when it was the only listener.
\* readStream has no "error" listener, t1, deflate and state.writeStream have
\* only pipe's, so their error is thrown as an uncaught exception; t2 also
\* has the listener of finished(t2), which rejects the awaited promise.
StageFail ==
    /\ wPc = "streaming"
    /\ pipe.failed = "none"
    /\ \E stage \in Stages :
          /\ StageRunning(stage)
          /\ pipe' = [pipe EXCEPT !.failed = stage]
          /\ wPc' = IF stage = "t2" THEN "rejected" ELSE "uncaught"
    /\ UNCHANGED <<inputs, nextFile, state, sink>>
    /\ UNCHANGED notWriter

PipelineNotAwaited == TRUE

\* await finished(t2)
PipelineFinished == pipe.t2Ended

\* addFileToZip after await finished(t2), and the return to the caller's loop
AddFileFinish ==
    /\ wPc = "streaming"
    /\ PipelineFinished
    /\ LET fileInfo == [state.fileInfoList[Current] EXCEPT !.crc32 = FinalizeCRC(@)]
           dataDescriptor == createZIP64DataDescriptor(fileInfo).buf
       IN  /\ state' = [state EXCEPT
                 !.fileInfoList[Current] = fileInfo,
                 !.currentPosInWriteStream = @ + Len(dataDescriptor)]
           /\ sink' = Append(sink, RecordSegment("dd", Current, dataDescriptor))
    /\ nextFile' = nextFile + 1
    /\ wPc' = "loop"
    /\ UNCHANGED <<inputs, pipe>>
    /\ UNCHANGED notWriter

endRecordOffsetAtStart(centralDirectoryStartPos, centralDirectorySize) ==
    centralDirectoryStartPos

\* endZip line 382: the counter once the central headers have been added
endRecordOffset(centralDirectoryStartPos, centralDirectorySize) ==
    centralDirectoryStartPos + centralDirectorySize

RECURSIVE CentralHeadersFrom(_, _)
CentralHeadersFrom(list, i) ==
    IF i > Len(list) THEN <<>>
    ELSE <<RecordSegment("cdh", i, createFileHeader(WideInfo(list[i]), TRUE).buf)>>
         \o CentralHeadersFrom(list, i + 1)

RECURSIVE TotalLen(_)
TotalLen(segs) == IF segs = <<>> THEN 0 ELSE Head(segs).len + TotalLen(Tail(segs))

\* endZip.  writeStream.write returns a boolean (whether the stream wants
\* more), and that is what the last three += add to the counter.
EndZip ==
    /\ wPc = "loop"
    /\ nextFile > Len(inputs)
    /\ LET centralDirectoryStartPos == state.currentPosInWriteStream
           headers == CentralHeadersFrom(state.fileInfoList, 1)
           centralDirectorySize == TotalLen(headers)
           numEntries == Len(state.fileInfoList)
           zip64EndRecord == createZIP64EndOfCentralDirectoryRecord(
                                 NumOf(centralDirectoryStartPos), NumOf(centralDirectorySize),
                                 NumOf(numEntries))
           zip64EndLocator == createZIP64EndOfCentralDirectoryLocator(
                                 NumOf(endRecordOffset(centralDirectoryStartPos,
                                                       centralDirectorySize)))
           endRecord == createEndOfCentralDirectoryRecord(
                                 NumOf(centralDirectoryStartPos), NumOf(centralDirectorySize),
                                 NumOf(numEntries))
           tail == << RecordSegment("z64end", 0, zip64EndRecord.buf),
                      RecordSegment("z64loc", 0, zip64EndLocator.buf),
                      RecordSegment("eocd", 0, endRecord.buf) >>
       IN  /\ sink' = sink \o headers \o tail
           /\ \E w1 \in 0..1, w2 \in 0..1, w3 \in 0..1 :
                state' = [state EXCEPT !.currentPosInWriteStream =
                                            @ + TotalLen(headers) + w1 + w2 + w3]
    /\ wPc' = "done"
    /\ UNCHANGED <<inputs, nextFile, pipe>>
    /\ UNCHANGED notWriter

WriterNext ==
    \/ AddFileStart \/ SrcData \/ SrcEnd \/ T1Transform \/ T1End \/ Deflate \/ DeflateEnd
    \/ T2Transform \/ T2Pipe \/ T2End \/ StageFail \/ AddFileFinish \/ EndZip

(***************************************************************************)
(* addFileToZip called on one state by a caller that need not await: the   *)
(* function has no check of a call in progress, so every call made starts  *)
(***************************************************************************)
CallsIdle == calls = <<>>

\* the caller adds one file, or a first and a second file; the files have at
\* most one chunk
CallFiles == {f \in FileSamples : Len(f.chunks) <= 1}

CallLists == {<<f>> : f \in CallFiles} \cup {<<f, g>> : f \in CallFiles, g \in CallFiles}

\* startZip, then calls of addFileToZip for the files of inputs in turn
CallsInit ==
    /\ inputs \in CallLists
    /\ wPc = "calls"
    /\ nextFile = 1
    /\ state = [writeStream |-> "open", currentPosInWriteStream |-> 0, fileInfoList |-> <<>>]
    /\ sink = <<>>
    /\ pipe = <<>>
    /\ calls = <<>>

\* a call's own pipeline: raw chunks not yet read, chunks taken in by the
\* deflate stage, compressed chunks t2 has counted and not yet handed on
NewCall(chunks) ==
    [pc |-> "streaming", src |-> chunks, inDeflate |-> 0, deflEnded |-> FALSE, q4 |-> <<>>]

\* addFileToZip up to await finished(t2); call c adds entry c of the list
CallStart ==
    /\ wPc = "calls"
    /\ nextFile <= Len(inputs)
    /\ LET fileName == getFileNameFromPath(inputs[nextFile].path)
           fileInfo == createFileInfoObject(fileName, state.currentPosInWriteStream)
           localFileHeader == createFileHeader(WideInfo(fileInfo), FALSE).buf
       IN  /\ state' = [state EXCEPT
                 !.currentPosInWriteStream = @ + Len(localFileHeader),
                 !.fileInfoList = Append(@, fileInfo)]
           /\ sink' = Append(sink, RecordSegment("lfh", Len(calls) + 1, localFileHeader))
    /\ calls' = Append(calls, NewCall(inputs[nextFile].chunks))
    /\ nextFile' = nextFile + 1
    /\ UNCHANGED <<inputs, wPc, pipe>>
    /\ UNCHANGED notCalls

\* a raw chunk of call c goes through t1.transform into the deflate stage
CallT1 ==
    /\ wPc = "calls"
    /\ \E c \in 1..Len(calls) :
          /\ calls[c].pc = "streaming"
          /\ calls[c].src # <<>>
          /\ LET chunk == Head(calls[c].src)
             IN  state' = [state EXCEPT
                    !.fileInfoList[c].uncompressedSize = @ + Len(chunk),
                    !.fileInfoList[c].crc32 = updateCRC(chunk, @)]
          /\ calls' = [calls EXCEPT ![c].src = Tail(@), ![c].inDeflate = @ + 1]
    /\ UNCHANGED <<inputs, wPc, nextFile, sink, pipe>>
    /\ UNCHANGED notCalls

\* the deflate stage of call c emits a chunk of n bytes (its last one once
\* the input has ended) and t2.transform counts it
CallT2 ==
    /\ wPc = "calls"
    /\ \E c \in 1..Len(calls), n \in 1..MaxOut :
          /\ calls[c].pc = "streaming"
          /\ ~calls[c].deflEnded
          /\ calls[c].inDeflate > 0 \/ calls[c].src = <<>>
          /\ state' = [state EXCEPT
                 !.fileInfoList[c].compressedSize = @ + n,
                 !.currentPosInWriteStream = T2Advance(@, n)]
          /\ calls' = [calls EXCEPT
                 ![c].inDeflate = IF @ > 0 THEN @ - 1 ELSE 0,
                 ![c].deflEnded = (calls[c].inDeflate = 0),
                 ![c].q4 = Append(@, n)]
    /\ UNCHANGED <<inputs, wPc, nextFile, sink, pipe>>
    /\ UNCHANGED notCalls

\* t2 "data" of call c: pipe writes the chunk to state.writeStream
CallPipe ==
    /\ wPc = "calls"
    /\ \E c \in 1..Len(calls) :
          /\ calls[c].q4 # <<>>
          /\ sink' = Append(sink, Segment("data", c, Head(calls[c].q4)))
          /\ calls' = [calls EXCEPT ![c].q4 = Tail(@)]
    /\ UNCHANGED <<inputs, wPc, nextFile, state, pipe>>
    /\ UNCHANGED notCalls

\* call c after await finished(t2)
CallFinish ==
    /\ wPc = "calls"
    /\ \E c \in 1..Len(calls) :
          /\ calls[c].pc = "streaming"
          /\ calls[c].deflEnded
          /\ calls[c].q4 = <<>>
          /\ LET fileInfo == [state.fileInfoList[c] EXCEPT !.crc32 = FinalizeCRC(@)]
                 dataDescriptor == createZIP64DataDescriptor(fileInfo).buf
             IN  /\ state' = [state EXCEPT
                       !.fileInfoList[c] = fileInfo,
                       !.currentPosInWriteStream = @ + Len(dataDescriptor)]
                 /\ sink' = Append(sink, RecordSegment("dd", c, dataDescriptor))
          /\ calls' = [calls EXCEPT ![c].pc = "done"]
    /\ UNCHANGED <<inputs, wPc, nextFile, pipe>>
    /\ UNCHANGED notCalls

CallsNext == CallStart \/ CallT1 \/ CallT2 \/ CallPipe \/ CallFinish

(***************************************************************************)
(* The record builders applied to entries and totals of any size           *)
(***************************************************************************)
FirstBeyond32 == <<0, 1, 0, 0>>          \* 0x100000000

SizeSamples ==
    {NumZero, NumOf(5), <<0, 0, Half - 1, Half - 2>>, Sentinel32, FirstBeyond32,
     <<0, 1, 0, 7>>, <<15, Half - 1, Half - 1, Half - 1>>}

CountSamples ==
    {NumZero, NumOf(3), NumOf(Half - 2), NumOf(Half - 1), NumOf(Half), <<0, 0, 1, 4464>>}

NameSamples == {<<97>>, <<100, 50976>>}
CommentSamples == {<<>>, <<99, 233>>}

\* a finalized entry: createFileInfoObject's fields with sizes, crc and
\* offset filled in
FinalizedInfo(fileName, fileComment, uncompressedSize, compressedSize, offset) ==
    [createFileInfoObject(fileName, offset) EXCEPT
        !.crc32 = MkU(52212, 14630),
        !.fileComment = fileComment,
        !.uncompressedSize = uncompressedSize,
        !.compressedSize = compressedSize]

InfoChoices ==
    {FinalizedInfo(n, c, u, z, o) :
        n \in NameSamples, c \in CommentSamples,
        u \in SizeSamples, z \in SizeSamples, o \in SizeSamples}

EndChoices ==
    {[centralDirectoryStart |-> a, centralDirectorySize |-> b, numEntries |-> n] :
        a \in SizeSamples, b \in SizeSamples, n \in CountSamples}

\* entries for the lists: small and oversized sizes and offsets
ListSamples ==
    {FinalizedInfo(n, <<>>, u, NumOf(5), o) :
        n \in NameSamples, u \in {NumOf(5), FirstBeyond32}, o \in {NumOf(5), <<0, 1, 0, 7>>}}

ListChoices == SeqsUpTo(ListSamples, MaxFiles)

RecIdle ==
    /\ hInfo = <<>>
    /\ hEnd = <<>>
    /\ hList = <<>>
    /\ hPc = "idle"
    /\ hOut = <<>>

RecInit ==
    /\ \/ hInfo \in InfoChoices /\ hEnd = <<>> /\ hList = <<>> /\ hPc = "start"
       \/ hInfo = <<>> /\ hEnd \in EndChoices /\ hList = <<>> /\ hPc = "start"
       \/ hInfo = <<>> /\ hEnd = <<>> /\ hList \in ListChoices /\ hPc = "list"
    /\ hOut = <<>>

\* createFileHeader(fileInfo, isCentralDirectory)
CreateFileHeader ==
    /\ hPc = "start"
    /\ hInfo # <<>>
    /\ \E isCentralDirectory \in BOOLEAN :
          /\ hOut' = [isCentralDirectory |-> isCentralDirectory,
                      original |-> hInfo,
                      header |-> createFileHeader(hInfo, isCentralDirectory)]
          /\ hInfo' = CallerFileInfo(hInfo, isCentralDirectory)
    /\ hPc' = "header"
    /\ UNCHANGED <<hEnd, hList>>
    /\ UNCHANGED notRec

\* endZip lines 381-390: the two end records for the same totals
CreateEndRecords ==
    /\ hPc = "start"
    /\ hEnd # <<>>
    /\ hOut' = [zip64EndRecord |->
                    createZIP64EndOfCentralDirectoryRecord(
                        hEnd.centralDirectoryStart, hEnd.centralDirectorySize,
                        hEnd.numEntries),
                endRecord |->
                    createEndOfCentralDirectoryRecord(
                        hEnd.centralDirectoryStart, hEnd.centralDirectorySize,
                        hEnd.numEntries)]
    /\ hPc' = "end"
    /\ UNCHANGED <<hInfo, hEnd, hList>>
    /\ UNCHANGED notRec

\* endZip lines 372-379: the central directory of a list of entries
EmitCentralDirectory ==
    /\ hPc = "list"
    /\ LET loop == CentralDirectoryLoop(hList, 1, <<>>)
       IN  /\ hList' = loop.list
           /\ hOut' = [original |-> hList, err |-> loop.err, headers |-> loop.headers]
    /\ hPc' = "directory"
    /\ UNCHANGED <<hInfo, hEnd>>
    /\ UNCHANGED notRec

RecNext == CreateFileHeader \/ CreateEndRecords \/ EmitCentralDirectory

(***************************************************************************)
(* Properties of the record builders                                       *)
(***************************************************************************)
U16At(buf, offset) == GetBytes(buf, offset, 2)
U32At(buf, offset) == GetBytes(buf, offset, 4)
U64At(buf, offset) == GetBytes(buf, offset, 8)

MinNum(a, b) == IF NumLess(a, b) THEN a ELSE b

CentralHeaderBuilt == hPc = "header" /\ hOut.isCentralDirectory

\* where the extra field of a central header starts
ExtraAt(buf) == 46 + U16At(buf, 28)[4]

OffsetPromoted(info) == NumLess(Sentinel32, info.relativeOffsetOfLocalHeader)

SizesBeyond32(info) ==
    \/ ~NumLess(info.uncompressedSize, Sentinel32)
    \/ ~NumLess(info.compressedSize, Sentinel32)

\* C11: for an entry whose uncompressedSize or compressedSize is >= 0xFFFFFFFF
\* the central header holds 0xFFFFFFFF in both primary size fields and its
\* ZIP64 extra field (tag 1, size 8 x promoted values) carries the true
\* uncompressed size, then the true compressed size, then the offset only
\* when the offset was promoted.
C11_LargeSizesPromoted ==
    (CentralHeaderBuilt /\ SizesBeyond32(hInfo)) =>
        /\ hOut.header.err = ""
        /\ LET buf == hOut.header.buf
               x == ExtraAt(buf)
               k == IF OffsetPromoted(hInfo) THEN 3 ELSE 2
           IN  /\ U32At(buf, 20) = Sentinel32
               /\ U32At(buf, 24) = Sentinel32
               /\ U16At(buf, 30) = NumOf(4 + 8 * k)
               /\ U16At(buf, x) = NumOf(1)
               /\ U16At(buf, x + 2) = NumOf(8 * k)
               /\ U64At(buf, x + 4) = hInfo.uncompressedSize
               /\ U64At(buf, x + 12) = hInfo.compressedSize
               /\ OffsetPromoted(hInfo) => U64At(buf, x + 20) = hInfo.relativeOffsetOfLocalHeader
               /\ Len(buf) = 46 + Utf8Length(hInfo.fileName) + 4 + 8 * k
                             + Utf8Length(hInfo.fileComment)

C11_Witness ==
    /\ CentralHeaderBuilt
    /\ hInfo.uncompressedSize = FirstBeyond32
    /\ hInfo.compressedSize = NumOf(5)
    /\ OffsetPromoted(hInfo)
    /\ hOut.header.err = ""
    /\ U64At(hOut.header.buf, ExtraAt(hOut.header.buf) + 4) = FirstBeyond32

\* C12: for an entry whose sizes and offset are all < 0xFFFFFFFF the central
\* header carries the true values in its primary fields, its extraFieldLength
\* is 0 and its length is 46 + file-name bytes + comment bytes.
C12_SmallEntryPlain ==
    (/\ CentralHeaderBuilt
     /\ NumLess(hInfo.uncompressedSize, Sentinel32)
     /\ NumLess(hInfo.compressedSize, Sentinel32)
     /\ NumLess(hInfo.relativeOffsetOfLocalHeader, Sentinel32)) =>
        /\ hOut.header.err = ""
        /\ LET buf == hOut.header.buf
           IN  /\ U32At(buf, 20) = hInfo.compressedSize
               /\ U32At(buf, 24) = hInfo.uncompressedSize
               /\ U32At(buf, 42) = hInfo.relativeOffsetOfLocalHeader
               /\ U16At(buf, 30) = NumZero
               /\ Len(buf) = 46 + Utf8Length(hInfo.fileName) + Utf8Length(hInfo.fileComment)

C12_Witness ==
    /\ CentralHeaderBuilt
    /\ hInfo.uncompressedSize = <<0, 0, Half - 1, Half - 2>>
    /\ hInfo.compressedSize = NumOf(5)
    /\ hInfo.relativeOffsetOfLocalHeader = NumOf(5)
    /\ hInfo.fileComment # <<>>
    /\ Utf8Length(hInfo.fileName) # Len(hInfo.fileName)
    /\ hOut.header.err = ""
    /\ Len(hOut.header.buf) = 46 + 4 + 3

\* what a reader finds in the extra field of a central header: the block's
\* size tells which of the values it carries
ExtraBlockSize(buf) ==
    IF U16At(buf, 30) = NumZero THEN 0 ELSE U16At(buf, ExtraAt(buf) + 2)[4]

InExtraField(buf, name) ==
    IF name = "relativeOffsetOfLocalHeader"
    THEN ExtraBlockSize(buf) \in {8, 24}
    ELSE ExtraBlockSize(buf) \in {16, 24}

SlotOffset(name) ==
    CASE name = "compressedSize" -> 20
      [] name = "uncompressedSize" -> 24
      [] name = "relativeOffsetOfLocalHeader" -> 42

\* C13: in every central header, each of uncompressedSize, compressedSize and
\* relativeOffsetOfLocalHeader is in the ZIP64 extra field if and only if its
\* primary 32-bit slot holds 0xFFFFFFFF, a value of exactly 0xFFFFFFFF
\* included.
C13_SlotAndExtraAgree ==
    CentralHeaderBuilt =>
        /\ hOut.header.err = ""
        /\ \A name \in {"uncompressedSize", "compressedSize", "relativeOffsetOfLocalHeader"} :
              InExtraField(hOut.header.buf, name)
                 <=> (U32At(hOut.header.buf, SlotOffset(name)) = Sentinel32)

\* C17: the end-of-central-directory record holds min(entries, 0xFFFF) in both
\* count slots, min(size, 0xFFFFFFFF) and min(start, 0xFFFFFFFF); the ZIP64
\* end record written alongside carries the unclamped values.
C17_EndRecordClamps ==
    hPc = "end" =>
        /\ hOut.endRecord.err = ""
        /\ hOut.zip64EndRecord.err = ""
        /\ LET e == hOut.endRecord.buf
               z == hOut.zip64EndRecord.buf
           IN  /\ U16At(e, 8) = MinNum(hEnd.numEntries, NumOf(Half - 1))
               /\ U16At(e, 10) = MinNum(hEnd.numEntries, NumOf(Half - 1))
               /\ U32At(e, 12) = MinNum(hEnd.centralDirectorySize, Sentinel32)
               /\ U32At(e, 16) = MinNum(hEnd.centralDirectoryStart, Sentinel32)
               /\ U64At(z, 24) = hEnd.numEntries
               /\ U64At(z, 32) = hEnd.numEntries
               /\ U64At(z, 40) = hEnd.centralDirectorySize
               /\ U64At(z, 48) = hEnd.centralDirectoryStart

C17_Witness ==
    /\ hPc = "end"
    /\ hEnd.numEntries = <<0, 0, 1, 4464>>
    /\ hEnd.centralDirectorySize = FirstBeyond32
    /\ hEnd.centralDirectoryStart = NumOf(5)
    /\ U16At(hOut.endRecord.buf, 8) = NumOf(Half - 1)
    /\ U32At(hOut.endRecord.buf, 12) = Sentinel32
    /\ U32At(hOut.endRecord.buf, 16) = NumOf(5)
    /\ U64At(hOut.zip64EndRecord.buf, 40) = FirstBeyond32

(***************************************************************************)
(* Display names: getFileName (the earlier writer) and getFileNameFromPath *)
(***************************************************************************)
MaxPathLen == 4     \* longest generated path

PathChars == {Slash, Backslash, 97, 46}

\* the paths of the getFileName tests
TestPaths ==
    {<<67, 58, 92, 115, 111, 109, 101, 92, 116, 101, 115, 116, 92, 112, 97, 116, 104, 92, 97, 102, 105, 108, 101, 46, 116, 120, 116>>,
     <<47, 104, 111, 109, 101, 47, 110, 105, 120, 47, 110, 105, 112, 47, 97, 102, 105, 108, 101, 46, 116, 120, 116>>,
     <<97, 102, 105, 108, 101, 46, 116, 120, 116>>}

PathChoices == SeqsUpTo(PathChars, MaxPathLen) \cup TestPaths

\* filePath.replaceAll("\\", "/")
ReplaceBackslashes(filePath) ==
    [i \in 1..Len(filePath) |-> IF filePath[i] = Backslash THEN Slash ELSE filePath[i]]

\* whether ([^/]*?)$ matches at index i: the lazy group grows one character
\* at a time until $ holds, and cannot take a "/"
MatchesAt(str, i) == \A j \in (i + 1)..Len(str) : str[j] # Slash

\* regex.exec(str)[1]: exec tries the indexes from 0 upwards; the pattern
\* always matches at str.length
RegexExec(str) ==
    LET index == CHOOSE i \in 0..Len(str) :
                    MatchesAt(str, i) /\ \A h \in 0..(i - 1) : ~MatchesAt(str, h)
    IN  SubSeq(str, index + 1, Len(str))

Null == [isNull |-> TRUE, name |-> <<>>]
Name(str) == [isNull |-> FALSE, name |-> str]

\* getFileName
getFileName(filePath) ==
    LET result == RegexExec(ReplaceBackslashes(filePath))
    IN  IF result # <<>> THEN Name(result) ELSE Null

NameIdle ==
    /\ path = <<>>
    /\ nPc = "idle"
    /\ nOut = <<>>

NameInit ==
    /\ path \in PathChoices
    /\ nPc = "start"
    /\ nOut = <<>>

GetFileName ==
    /\ nPc = "start"
    /\ nOut' = [by |-> "getFileName", result |-> getFileName(path)]
    /\ nPc' = "done"
    /\ UNCHANGED path
    /\ UNCHANGED notName

GetFileNameFromPath ==
    /\ nPc = "start"
    /\ nOut' = [by |-> "getFileNameFromPath", result |-> Name(getFileNameFromPath(path))]
    /\ nPc' = "done"
    /\ UNCHANGED path
    /\ UNCHANGED notName

NameNext == GetFileName \/ GetFileNameFromPath

IsSeparator(c) == c = Slash \/ c = Backslash

\* the substring after the last separator, the whole path if it has none
AfterLastSeparator(str) ==
    LET seps == {i \in 1..Len(str) : IsSeparator(str[i])}
    IN  IF seps = {} THEN str
        ELSE SubSeq(str, (CHOOSE i \in seps : \A j \in seps : j <= i) + 1, Len(str))

\* C18: for every path, getFileName and getFileNameFromPath both return the
\* substring after the last "/" or "\" (the whole path when it has neither),
\* and it holds no separator.
C18_LastSegment ==
    nPc = "done" =>
        /\ ~nOut.result.isNull
        /\ nOut.result.name = AfterLastSeparator(path)
        /\ \A i \in 1..Len(nOut.result.name) : ~IsSeparator(nOut.result.name[i])

(***************************************************************************)
(* Properties of the writer                                                *)
(***************************************************************************)
\* what may directly follow segment a in the output of an archive of n entries
Follows(a, b, n) ==
    CASE a.kind \in {"lfh", "data"} -> b.kind \in {"data", "dd"} /\ b.entry = a.entry
      [] a.kind = "dd" ->
            \/ b.kind = "lfh" /\ b.entry = a.entry + 1
            \/ b.kind = "cdh" /\ b.entry = 1 /\ a.entry = n
      [] a.kind = "cdh" ->
            \/ b.kind = "cdh" /\ b.entry = a.entry + 1
            \/ b.kind = "z64end" /\ a.entry = n
      [] a.kind = "z64end" -> b.kind = "z64loc"
      [] a.kind = "z64loc" -> b.kind = "eocd"
      [] OTHER -> FALSE

Count(kind) == Cardinality({i \in 1..Len(sink) : sink[i].kind = kind})

DataBytes(e) ==
    TotalLen(SelectSeq(sink, LAMBDA g : g.kind = "data" /\ g.entry = e))

HasSegment(kind, e) == \E i \in 1..Len(sink) : sink[i].kind = kind /\ sink[i].entry = e

PositionOf(kind, e) == CHOOSE i \in 1..Len(sink) : sink[i].kind = kind /\ sink[i].entry = e

\* C9: the output is, in order: per entry in input order its local header,
\* all of its compressed payload and its data descriptor; then one central
\* header per entry in the same order; then the ZIP64 end record, the ZIP64
\* locator and the end-of-central-directory record, each once.
C9_OutputOrder ==
    /\ sink # <<>> =>
          \/ sink[1].kind = "lfh" /\ sink[1].entry = 1
          \/ sink[1].kind = "z64end" /\ Len(inputs) = 0
    /\ \A i \in 1..(Len(sink) - 1) : Follows(sink[i], sink[i + 1], Len(inputs))
    /\ \A i \in 1..Len(sink) :
          sink[i].kind = "lfh" =>
             sink[i].len = 30 + Utf8Length(getFileNameFromPath(inputs[sink[i].entry].path))
    /\ HasSegment("dd", Current) =>
          /\ pipe.src = <<>> /\ pipe.deflEnded
          /\ DataBytes(Current) = pipe.emitted
    /\ wPc = "done" =>
          /\ sink[Len(sink)].kind = "eocd"
          /\ Count("lfh") = Len(inputs) /\ Count("dd") = Len(inputs)
          /\ Count("cdh") = Len(inputs)
          /\ Count("z64end") = 1 /\ Count("z64loc") = 1 /\ Count("eocd") = 1

C9_Witness ==
    /\ wPc = "done"
    /\ Len(inputs) = 2
    /\ \E i \in 1..(Len(sink) - 1) :
          sink[i].kind = "data" /\ sink[i + 1].kind = "data" /\ sink[i].entry = 1
    /\ \E i \in 1..Len(sink) : sink[i].kind = "data" /\ sink[i].entry = 2

\* C10: each entry's relativeOffsetOfLocalHeader is the number of bytes handed
\* to the sink before its local header, and for consecutive entries it is the
\* previous offset + previous local-header length + previous compressedSize
\* + 24.
C10_LocalHeaderOffset ==
    /\ \A e \in 1..Current :
          /\ HasSegment("lfh", e)
          /\ state.fileInfoList[e].relativeOffsetOfLocalHeader
                = TotalLen(SubSeq(sink, 1, PositionOf("lfh", e) - 1))
    /\ \A e \in 1..(Current - 1) :
          state.fileInfoList[e + 1].relativeOffsetOfLocalHeader
             = state.fileInfoList[e].relativeOffsetOfLocalHeader
               + sink[PositionOf("lfh", e)].len
               + state.fileInfoList[e].compressedSize + 24

C10_Witness ==
    /\ Current = 2
    /\ wPc = "done"
    /\ state.fileInfoList[1].compressedSize >= 3
    /\ state.fileInfoList[2].relativeOffsetOfLocalHeader
          = 30 + Utf8Length(state.fileInfoList[1].fileName)
            + state.fileInfoList[1].compressedSize + 24
    /\ Utf8Length(state.fileInfoList[1].fileName) # Len(state.fileInfoList[1].fileName)

\* the write of the given kind that endZip made
EndSegment(kind) == sink[PositionOf(kind, 0)]

\* the number of bytes handed to the sink before write i
BytesBefore(i) == TotalLen(SubSeq(sink, 1, i - 1))

KindLen(kinds) == TotalLen(SelectSeq(sink, LAMBDA g : g.kind \in kinds))

\* C14: for an empty input list endZip still emits a ZIP64 end record, a
\* ZIP64 locator and an end-of-central-directory record, and the last holds
\* numEntries = 0 in both count slots, centralDirectorySize = 0 and
\* centralDirectoryStart = 0.
C14_EmptyArchive ==
    (wPc = "done" /\ inputs = <<>>) =>
        /\ Len(sink) = 3
        /\ sink[1].kind = "z64end" /\ sink[1].len = 56
        /\ U32At(sink[1].bytes, 0) = Signatures.zip64EndOfCentralDirectory
        /\ sink[2].kind = "z64loc" /\ sink[2].len = 20
        /\ U32At(sink[2].bytes, 0) = Signatures.zip64EndOfCentralDirectoryLocator
        /\ sink[3].kind = "eocd" /\ sink[3].len = 22
        /\ U32At(sink[3].bytes, 0) = Signatures.endOfCentralDirectory
        /\ U16At(sink[3].bytes, 8) = NumZero
        /\ U16At(sink[3].bytes, 10) = NumZero
        /\ U32At(sink[3].bytes, 12) = NumZero
        /\ U32At(sink[3].bytes, 16) = NumZero

C14_Witness ==
    /\ wPc = "done"
    /\ inputs = <<>>
    /\ Len(sink) = 3
    /\ sink[3].kind = "eocd"

\* C15: after endZip the ZIP64 locator's relativeOffset is the output position
\* at which the ZIP64 end record's signature was written, which is
\* centralDirectoryStart + centralDirectorySize, and the locator directly
\* follows the 56-byte ZIP64 end record.
C15_LocatorPointsAtEndRecord ==
    wPc = "done" =>
        LET i == PositionOf("z64end", 0)
            z == sink[i].bytes
        IN  /\ sink[i].len = 56
            /\ U32At(z, 0) = Signatures.zip64EndOfCentralDirectory
            /\ sink[i + 1].kind = "z64loc"
            /\ U64At(sink[i + 1].bytes, 8) = NumOf(BytesBefore(i))
            /\ U64At(sink[i + 1].bytes, 8) = NumOf(U64At(z, 48)[4] + U64At(z, 40)[4])

C15_Witness ==
    /\ wPc = "done"
    /\ Len(inputs) = 2
    /\ U64At(EndSegment("z64loc").bytes, 8) = NumOf(BytesBefore(PositionOf("z64end", 0)))
    /\ KindLen({"cdh"}) > 92
    /\ KindLen({"data"}) >= 3

\* C16: after endZip the ZIP64 end record holds the number of entries in both
\* count slots, centralDirectoryStart = the output position of the first
\* central header (right after the last data descriptor),
\* centralDirectorySize = the summed length of the central headers written,
\* record size 44, version made by 45, version needed 45, disk numbers 0.
C16_Zip64EndRecord ==
    wPc = "done" =>
        LET z == EndSegment("z64end").bytes
        IN  /\ U64At(z, 4) = NumOf(44)
            /\ U16At(z, 12) = NumOf(45)
            /\ U16At(z, 14) = NumOf(45)
            /\ U32At(z, 16) = NumZero
            /\ U32At(z, 20) = NumZero
            /\ U64At(z, 24) = NumOf(Len(inputs))
            /\ U64At(z, 32) = NumOf(Len(inputs))
            /\ U64At(z, 40) = NumOf(KindLen({"cdh"}))
            /\ U64At(z, 48) = NumOf(KindLen({"lfh", "data", "dd"}))
            /\ HasSegment("cdh", 1) =>
                  /\ U64At(z, 48) = NumOf(BytesBefore(PositionOf("cdh", 1)))
                  /\ sink[PositionOf("cdh", 1) - 1].kind = "dd"

C16_Witness ==
    /\ wPc = "done"
    /\ Len(inputs) = 2
    /\ U64At(EndSegment("z64end").bytes, 24) = NumOf(2)
    /\ U64At(EndSegment("z64end").bytes, 40) # U64At(EndSegment("z64end").bytes, 48)
    /\ KindLen({"data"}) >= 3

\* C19: if the input stream or a pipeline stage fails while an entry is
\* streaming, the failure reaches the caller (createZipFromFileList rejects):
\* the run does not end otherwise, no data descriptor is written for the
\* entry, and no later entry or central directory is written.
C19_FailureReachesCaller ==
    (wPc # "idle" /\ pipe.failed # "none") =>
        /\ wPc = "rejected"
        /\ ~HasSegment("dd", Current)
        /\ sink[Len(sink)].entry = Current
        /\ sink[Len(sink)].kind \in {"lfh", "data"}

\* C20: whenever createZipFromFileList finishes, normally or by an abort, the
\* output sink and every input stream opened for an entry have been closed.
C20_ResourcesClosed ==
    wPc \in {"done", "rejected"} =>
        /\ state.writeStream = "closed"
        /\ ~pipe.srcOpen

\* C27: central-directory emission never mutates an entry: after endZip's
\* loop every entry of the list has the attributes (sizes, CRC, offset, name,
\* comment) it had before, also when createFileHeader forced sentinel values
\* into the header of an oversized entry, and the list has the same length
\* and order; the same holds for a single createFileHeader call.
C27_EntriesNotMutated ==
    /\ hPc = "directory" =>
          /\ Len(hList) = Len(hOut.original)
          /\ \A i \in 1..Len(hList) : hList[i] = hOut.original[i]
          /\ hOut.err = "" => Len(hOut.headers) = Len(hList)
    /\ hPc = "header" => hInfo = hOut.original

C27_Witness ==
    /\ hPc = "directory"
    /\ Len(hList) = 2
    /\ hOut.err = ""
    /\ hList[1] # hList[2]
    /\ hList[1].uncompressedSize = FirstBeyond32
    /\ OffsetPromoted(hList[1])
    /\ U32At(hOut.headers[1], 20) = Sentinel32
    /\ U32At(hOut.headers[1], 24) = Sentinel32
    /\ U32At(hOut.headers[1], 42) = Sentinel32
    /\ ~SizesBeyond32(hList[2])

\* the local header of entry e, as handed to the sink
LocalHeaderOf(e) == sink[PositionOf("lfh", e)].bytes

\* C26: every local file header the writer emits has CRC-32, compressed size
\* and uncompressed size 0, has bits 3 and 11 of the general-purpose flag
\* set, carries no extra field and is 30 + file-name bytes long (the name
\* following the fixed part), and the writer's counter advances by exactly
\* that length.
C26_LocalHeaderZeroed ==
    /\ \A i \in 1..Len(sink) :
          sink[i].kind = "lfh" =>
             LET buf == sink[i].bytes
                 flag == U16At(buf, 6)[4]
                 nameBytes == BufferFrom(getFileNameFromPath(inputs[sink[i].entry].path))
             IN  /\ U32At(buf, 14) = NumZero
                 /\ U32At(buf, 18) = NumZero
                 /\ U32At(buf, 22) = NumZero
                 /\ (flag \div 8) % 2 = 1
                 /\ (flag \div 2048) % 2 = 1
                 /\ U16At(buf, 28) = NumZero
                 /\ U16At(buf, 26) = NumOf(Len(nameBytes))
                 /\ Len(buf) = 30 + Len(nameBytes)
                 /\ sink[i].len = Len(buf)
                 /\ SubSeq(buf, 31, Len(buf)) = nameBytes
    /\ (wPc = "streaming" /\ state.fileInfoList[Current].compressedSize = 0) =>
          state.currentPosInWriteStream
             = BytesBefore(PositionOf("lfh", Current)) + Len(LocalHeaderOf(Current))

C26_Witness ==
    /\ wPc = "streaming"
    /\ Current = 2
    /\ state.fileInfoList[2].compressedSize = 0
    /\ state.fileInfoList[2].uncompressedSize > 0
    /\ Len(LocalHeaderOf(2)) > 30 + Len(state.fileInfoList[2].fileName)
    /\ state.currentPosInWriteStream
          = state.fileInfoList[2].relativeOffsetOfLocalHeader + Len(LocalHeaderOf(2))

\* the data descriptor of entry e, as handed to the sink
DescriptorOf(e) == sink[PositionOf("dd", e)].bytes

RECURSIVE FoldCRC(_, _)
FoldCRC(chunks, crc) ==
    IF chunks = <<>> THEN crc ELSE FoldCRC(Tail(chunks), updateCRC(Head(chunks), crc))

RECURSIVE RawLength(_)
RawLength(chunks) == IF chunks = <<>> THEN 0 ELSE Len(Head(chunks)) + RawLength(Tail(chunks))

\* C25: when an entry's data descriptor is built every input chunk has passed
\* both observer stages: its uncompressedSize is the number of raw bytes read
\* from the input, its compressedSize is the number of bytes handed to the
\* sink between the end of the entry's local header and the start of the
\* descriptor, its CRC is the fold of updateCRC over all raw chunks inverted
\* once, and nothing is counted after finalization (the entry keeps exactly
\* the values its descriptor carries).
C25_DescriptorAfterAllChunks ==
    /\ wPc # "idle" =>
          \A e \in 1..Current :
             HasSegment("dd", e) =>
                LET dd == DescriptorOf(e)
                    info == state.fileInfoList[e]
                    crc == FinalizeCRC(FoldCRC(inputs[e].chunks, CrcSeed))
                    between == BytesBefore(PositionOf("dd", e))
                               - BytesBefore(PositionOf("lfh", e) + 1)
                IN  /\ Len(dd) = 24
                    /\ U32At(dd, 0) = Signatures.dataDescriptor
                    /\ U32At(dd, 4) = <<0, 0, crc.hi, crc.lo>>
                    /\ U64At(dd, 8) = NumOf(between)
                    /\ U64At(dd, 16) = NumOf(RawLength(inputs[e].chunks))
                    /\ info.crc32 = crc
                    /\ info.compressedSize = between
                    /\ info.uncompressedSize = RawLength(inputs[e].chunks)
                    /\ e = Current =>
                          /\ pipe.src = <<>> /\ pipe.q1 = <<>> /\ pipe.q2 = <<>>
                          /\ pipe.q3 = <<>> /\ pipe.q4 = <<>>
                          /\ pipe.emitted = between

C25_Witness ==
    /\ wPc = "done"
    /\ Current = 2
    /\ Len(inputs[2].chunks) = 2
    /\ state.fileInfoList[2].uncompressedSize = 3
    /\ state.fileInfoList[2].compressedSize = 5
    /\ U64At(DescriptorOf(2), 8) = NumOf(5)
    /\ U64At(DescriptorOf(2), 16) = NumOf(3)
    /\ Count("data") >= 4

\* the entries whose local header has been handed to the sink and whose data
\* descriptor has not
OpenEntries ==
    {e \in 1..Len(state.fileInfoList) : HasSegment("lfh", e) /\ ~HasSegment("dd", e)}

\* C23: however the callers invoke addFileToZip on one state (a second call
\* before the first call's promise has settled included), at most one entry
\* is between the emission of its local header and of its data descriptor,
\* and each entry's recorded local-header offset is the output position at
\* which its header was written.
C23_NoParallelEntries ==
    wPc = "calls" =>
        /\ Cardinality(OpenEntries) <= 1
        /\ \A e \in 1..Len(state.fileInfoList) :
              state.fileInfoList[e].relativeOffsetOfLocalHeader
                 = BytesBefore(PositionOf("lfh", e))

\* C29: whenever no write is in progress (after startZip, after each
\* completed addFileToZip, after endZip) currentPosInWriteStream is the
\* number of bytes handed to the sink so far; after endZip it is the length
\* of the archive, the last three writes having advanced it by 56, 20 and 22.
C29_CounterIsBytesWritten ==
    wPc \in {"loop", "done"} => state.currentPosInWriteStream = TotalLen(sink)

(***************************************************************************)
(* Specifications: each exercises one component and leaves the others idle *)
(***************************************************************************)
InitCrc == CrcInit /\ CodecIdle /\ LocIdle /\ WriterIdle /\ RecIdle /\ NameIdle /\ CallsIdle
InitCodec == CodecInit /\ CrcIdle /\ LocIdle /\ WriterIdle /\ RecIdle /\ NameIdle /\ CallsIdle
InitLocator == LocInit /\ CrcIdle /\ CodecIdle /\ WriterIdle /\ RecIdle /\ NameIdle /\ CallsIdle
Init == WriterInit /\ CrcIdle /\ CodecIdle /\ LocIdle /\ RecIdle /\ NameIdle /\ CallsIdle
InitRecords == RecInit /\ CrcIdle /\ CodecIdle /\ LocIdle /\ WriterIdle /\ NameIdle /\ CallsIdle

Next == WriterNext

SpecCrc == InitCrc /\ [][CrcNext]_vars

SpecCodec == InitCodec /\ [][CodecNext]_vars

SpecLocator == InitLocator /\ [][LocNext]_vars

\* getFileName and getFileNameFromPath as functions of the path
InitNames == NameInit /\ CrcIdle /\ CodecIdle /\ LocIdle /\ WriterIdle /\ RecIdle /\ CallsIdle

SpecNames == InitNames /\ [][NameNext]_vars

\* createFileHeader and the end-record builders as functions of their inputs
SpecRecords == InitRecords /\ [][RecNext]_vars

\* createZipFromFileList
Spec == Init /\ [][Next]_vars

\* addFileToZip called on one state without awaiting
InitCalls == CallsInit /\ CrcIdle /\ CodecIdle /\ LocIdle /\ RecIdle /\ NameIdle

SpecCalls == InitCalls /\ [][CallsNext]_vars

====
